---- MODULE Spec2Model ----
(***************************************************************************)
(* A model of the shiv ECS runtime: the generational entity table, the    *)
(* dense component storages and the world built on them, and the stage    *)
(* executors of the scheduler.                                             *)
(***************************************************************************)
EXTENDS Integers, Sequences, FiniteSets, TLC

VARIABLES
    entities,         \* world.entities : Entities
    overflow_checks,  \* the build: TRUE when integer overflow panics (debug)
    panicked,         \* a call has panicked; the program has unwound
    rpc,              \* per thread: position inside Entities::reserve
    reserved,         \* entities returned by reserve() since the last flush
    ret,              \* the last completed call: operation, argument, result
    track,            \* progress of the call sequence alloc, free, alloc
    world,            \* the World: entities, storage, change_tick
    phase,            \* where a pass over the world is: setup, systems, apply, done
    queues,           \* per system: its CommandQueue
    spawned,          \* per system: what Commands::spawn returned and was given
    steps,            \* calls made in the current phase
    stages,           \* the schedule's SystemStages, in stage order
    sched,            \* where Schedule::run_once is, and the executor's tasks
    hist,             \* what the systems have done in the current run_once
    events,           \* an Events<E> resource
    readers,          \* the ManualEventReaders reading it
    seen,             \* per reader the ids it has yielded; per event its age in updates
    tworld,           \* the world's change tick and the ChangeTicks of one component
    tsys,             \* where a run of the two-stage schedule is, and its systems
    tmon,             \* what the systems did to the component and saw of it
    accs,             \* two Access values built by calls, and the last is_compatible
    fsys,             \* a function system: its parameters, its access, init's outcome
    schedule,         \* a Schedule: its stage map, its stage order, the last call on it
    once,             \* a stage holding one system under the criterion ShouldRun::once
    qry,              \* a QueryState, and what its last iteration yielded
    inv,              \* system invocations of a stage run and the change ticks they took
    fw,               \* a function system moved between two worlds
    res               \* the Resources of a world, and the last call on them

wvars == <<world, phase, queues, spawned, steps>>
nvars == <<schedule, once, qry, inv, fw, res>>
pvars == <<entities, overflow_checks, panicked, rpc, reserved, ret, track, wvars,
          stages, sched, hist, nvars>>
evvars == <<events, readers, seen>>
tkvars == <<tworld, tsys, tmon>>
acvars == <<accs, fsys>>
avars == <<evvars, tkvars, acvars, nvars>>
vars == <<entities, overflow_checks, panicked, rpc, reserved, ret, track, wvars,
         stages, sched, hist, avars>>

(***************************************************************************)
(* Bounds of the model.                                                    *)
(***************************************************************************)
MaxIndex == 2        \* entity handles given to the table have index 0..MaxIndex
MaxGen == 1          \* ... and generation 0..MaxGen
MaxMeta == 3         \* the metadata vector grows to at most this length
MaxPending == 3      \* the free list grows to at most this length
NumThreads == 2      \* threads calling reserve() concurrently

Threads == 1 .. NumThreads
Handles == [index : 0 .. MaxIndex, generation : 0 .. MaxGen]

Entity(i, g) == [index |-> i, generation |-> g]
NoEntity == [index |-> -1, generation |-> -1]

(***************************************************************************)
(* Sequence helpers used by the Vec operations below.                      *)
(***************************************************************************)
SeqSet(s, i, v) == [s EXCEPT ![i] = v]
Range(s) == {s[i] : i \in 1 .. Len(s)}
\* Vec::resize(new_len, value)
Resize(s, n, v) ==
    IF n <= Len(s) THEN SubSeq(s, 1, n) ELSE s \o [i \in 1 .. (n - Len(s)) |-> v]
\* Vec::swap_remove(i), 1-based
SwapRemove(s, i) ==
    IF i = Len(s) THEN SubSeq(s, 1, Len(s) - 1)
    ELSE SubSeq(SeqSet(s, i, s[Len(s)]), 1, Len(s) - 1)
\* first 1-based position of v in s, 0 when absent (Iterator::position)
Position(s, v) ==
    IF \E i \in 1 .. Len(s) : s[i] = v
    THEN CHOOSE i \in 1 .. Len(s) : s[i] = v /\ \A j \in 1 .. (i - 1) : s[j] # v
    ELSE 0

(***************************************************************************)
(* EntityMeta and EntityIdSet.                                             *)
(***************************************************************************)
EntityMeta(g, e) == [generation |-> g, is_empty |-> e]
EntityMetaDefault == EntityMeta(0, FALSE)
EMPTY == EntityMeta(0, TRUE)

\* EntityIdSet::insert: grow to index + 1, set the bit
IdSetInsert(bits, index) ==
    SeqSet(Resize(bits, IF index + 1 > Len(bits) THEN index + 1 ELSE Len(bits), FALSE),
           index + 1, TRUE)
\* EntityIdSet::remove: clear the bit
IdSetRemove(bits, index) ==
    IF index + 1 <= Len(bits) THEN SeqSet(bits, index + 1, FALSE) ELSE bits
IdSetContains(bits, index) == index + 1 <= Len(bits) /\ bits[index + 1]
\* EntityIdSet::resize(len, value)
IdSetResize(bits, len, value) ==
    LET old_len == Len(bits)
        grown == IF len > old_len THEN Resize(bits, len, FALSE) ELSE bits
        from == IF len > old_len THEN old_len ELSE len
    IN  [i \in 1 .. Len(grown) |-> IF i > from THEN value ELSE grown[i]]

(***************************************************************************)
(* Entities.  Every operation is a function from the table to the new     *)
(* table, the returned value and whether the call panicked.                *)
(***************************************************************************)
EntitiesDefault ==
    [meta |-> <<>>, entity_id_set |-> <<>>, pending |-> <<>>, free_cursor |-> 0, len |-> 0]

\* u32 addition and subtraction of the live count, modulo 2^32.  A u32 is
\* held as its residue nearest to zero: a negative k stands for 2^32 + k, so
\* that 0 - 1 is the wrapped value and (0 - 1) + 1 is 0 again.  An addition
\* cannot reach 2^32 within the bounds; a subtraction below zero wraps, or
\* panics when the build checks overflow
U32Add(a, b) == a + b
U32Sub(a, b) == a - b
SubOverflows(a, b) == a >= 0 /\ a - b < 0

Contains(E, e) ==
    /\ e.index < Len(E.meta)
    /\ E.meta[e.index + 1].generation = e.generation
    /\ ~E.meta[e.index + 1].is_empty

NeedsFlush(E) == E.free_cursor # Len(E.pending)

\* mark the drained free-list entries live, in order
RECURSIVE FlushDrain(_, _, _)
FlushDrain(meta, bits, drained) ==
    IF drained = <<>> THEN [meta |-> meta, bits |-> bits]
    ELSE LET index == Head(drained)
         IN  FlushDrain(SeqSet(meta, index + 1, [meta[index + 1] EXCEPT !.is_empty = FALSE]),
                        IdSetInsert(bits, index), Tail(drained))

FlushTable(E) ==
    IF ~NeedsFlush(E) THEN E
    ELSE LET current == E.free_cursor
             extra == IF current >= 0 THEN 0 ELSE -current
             new_free_cursor == IF current >= 0 THEN current ELSE 0
             meta1 == Resize(E.meta, Len(E.meta) + extra, EntityMetaDefault)
             bits1 == IF current >= 0 THEN E.entity_id_set
                      ELSE IdSetResize(E.entity_id_set, Len(E.meta) + extra, TRUE)
             len1 == U32Add(E.len, extra)
             drained == SubSeq(E.pending, new_free_cursor + 1, Len(E.pending))
             d == FlushDrain(meta1, bits1, drained)
         IN  [meta |-> d.meta,
              entity_id_set |-> d.bits,
              pending |-> SubSeq(E.pending, 1, new_free_cursor),
              free_cursor |-> new_free_cursor,
              len |-> U32Add(len1, Len(E.pending) - new_free_cursor)]

\* the value fetch_sub leaves in the cursor
FetchSub(cursor) == cursor - 1

\* Entities::reserve after the fetch_sub returned n
ReserveEntity(E, n) ==
    IF n > 0
    THEN LET index == E.pending[n]
         IN  Entity(index, E.meta[index + 1].generation)
    ELSE Entity(Len(E.meta) - n, 0)

AllocTable(E0) ==
    LET E == FlushTable(E0)
        len1 == U32Add(E.len, 1)
    IN  IF E.pending # <<>>
        THEN LET index == E.pending[Len(E.pending)]
                 pending1 == SubSeq(E.pending, 1, Len(E.pending) - 1)
             IN  [E |-> [meta |-> SeqSet(E.meta, index + 1,
                                         [E.meta[index + 1] EXCEPT !.is_empty = FALSE]),
                         entity_id_set |-> IdSetInsert(E.entity_id_set, index),
                         pending |-> pending1,
                         free_cursor |-> Len(pending1),
                         len |-> len1],
                  ret |-> Entity(index, E.meta[index + 1].generation)]
        ELSE LET index == Len(E.meta)
             IN  [E |-> [meta |-> Append(E.meta, EntityMetaDefault),
                         entity_id_set |-> IdSetInsert(E.entity_id_set, index),
                         pending |-> E.pending,
                         free_cursor |-> E.free_cursor,
                         len |-> len1],
                  ret |-> Entity(index, 0)]

AllocAtTable(E0, entity) ==
    LET E == FlushTable(E0)
        pos == Position(E.pending, entity.index)
        newMeta == EntityMeta(entity.generation, FALSE)
    IN  IF entity.index >= Len(E.meta)
        THEN LET pending1 == E.pending \o [i \in 1 .. (entity.index - Len(E.meta)) |->
                                              Len(E.meta) + i - 1]
             IN  [E |-> [meta |-> SeqSet(Resize(E.meta, entity.index + 1, EMPTY),
                                         entity.index + 1, newMeta),
                         entity_id_set |-> IdSetInsert(E.entity_id_set, entity.index),
                         pending |-> pending1,
                         free_cursor |-> Len(pending1),
                         len |-> U32Add(E.len, 1)],
                  ret |-> FALSE]
        ELSE IF pos # 0
        THEN LET pending1 == SwapRemove(E.pending, pos)
             IN  [E |-> [meta |-> SeqSet(E.meta, entity.index + 1, newMeta),
                         entity_id_set |-> IdSetInsert(E.entity_id_set, entity.index),
                         pending |-> pending1,
                         free_cursor |-> Len(pending1),
                         len |-> U32Add(E.len, 1)],
                  ret |-> FALSE]
        ELSE [E |-> [E EXCEPT !.meta = SeqSet(E.meta, entity.index + 1, newMeta)],
              ret |-> TRUE]

\* the test that lets Entities::free go on past its early returns
FreeMatches(meta, entity) == meta.generation = entity.generation

\* the metadata Entities::free leaves at the freed index
FreedMetaSameGeneration(meta) == EntityMeta(meta.generation, TRUE)
FreedMeta(meta) == EntityMeta(meta.generation + 1, TRUE)

FreeTable(E0, entity) ==
    LET E == FlushTable(E0)
    IN  IF entity.index >= Len(E.meta) THEN [E |-> E, ret |-> FALSE]
        ELSE IF ~FreeMatches(E.meta[entity.index + 1], entity) THEN [E |-> E, ret |-> FALSE]
        ELSE LET pending1 == Append(E.pending, entity.index)
             IN  [E |-> [meta |-> SeqSet(E.meta, entity.index + 1,
                                         FreedMeta(E.meta[entity.index + 1])),
                         entity_id_set |-> IdSetRemove(E.entity_id_set, entity.index),
                         pending |-> pending1,
                         free_cursor |-> Len(pending1),
                         len |-> U32Sub(E.len, 1)],
                  ret |-> TRUE]

\* the state Entities::free leaves behind when `self.len -= 1` panics: every
\* assignment before it has been made
FreePanics(E0, entity, checks) ==
    /\ checks
    /\ FreeTable(E0, entity).ret
    /\ SubOverflows(FlushTable(E0).len, 1)

FreePanicTable(E0, entity) == [FreeTable(E0, entity).E EXCEPT !.len = FlushTable(E0).len]

(***************************************************************************)
(* The entity table driven directly: alloc, alloc_at, free and flush take *)
(* &mut self, so they run only while no reserve() is in progress;         *)
(* reserve() takes &self and runs on any number of threads.                *)
(***************************************************************************)
\* the event resource, the change-detection schedule and the stand-alone
\* accesses are not part of this run
\* the variables of every part but the named one are not in use
Rest(part) ==
    /\ part # "schedule" => schedule = 0
    /\ part # "once" => once = 0
    /\ part # "qry" => qry = 0
    /\ part # "inv" => inv = 0
    /\ part # "fw" => fw = 0
    /\ part # "res" => res = 0
AuxIdle ==
    /\ events = 0 /\ readers = 0 /\ seen = 0
    /\ tworld = 0 /\ tsys = 0 /\ tmon = 0
    /\ accs = 0 /\ fsys = 0
    /\ Rest("")
Idle == [state |-> "idle", n |-> 0]
AllIdle == \A t \in Threads : rpc[t].state = "idle"
Ret(op, ent, ok) == [op |-> op, ent |-> ent, ok |-> ok]
NoTrack == [stage |-> 0, first |-> NoEntity, last |-> NoEntity]

EntInit ==
    /\ entities = EntitiesDefault
    /\ overflow_checks \in BOOLEAN
    /\ panicked = FALSE
    /\ rpc = [t \in Threads |-> Idle]
    /\ reserved = <<>>
    /\ ret = Ret("init", NoEntity, FALSE)
    /\ track = NoTrack
    /\ world = 0 /\ phase = "entities" /\ queues = <<>> /\ spawned = <<>> /\ steps = 0
    /\ stages = <<>> /\ sched = 0 /\ hist = 0
    /\ AuxIdle

EntAlloc ==
    /\ UNCHANGED <<wvars, stages, sched, hist, avars>>
    /\ ~panicked /\ AllIdle
    /\ FlushTable(entities).pending # <<>> \/ Len(FlushTable(entities).meta) < MaxMeta
    /\ LET r == AllocTable(entities)
       IN  /\ entities' = r.E
           /\ ret' = Ret("alloc", r.ret, TRUE)
           /\ track' = IF track.stage = 2
                        THEN [stage |-> 3, first |-> track.first, last |-> r.ret]
                        ELSE [stage |-> 1, first |-> r.ret, last |-> r.ret]
    /\ reserved' = <<>>
    /\ UNCHANGED <<overflow_checks, panicked, rpc>>

EntAllocAt(e) ==
    /\ UNCHANGED <<wvars, stages, sched, hist, avars>>
    /\ ~panicked /\ AllIdle
    /\ LET r == AllocAtTable(entities, e)
       IN  /\ entities' = r.E
           /\ ret' = Ret("alloc_at", NoEntity, r.ret)
    /\ reserved' = <<>>
    /\ track' = NoTrack
    /\ UNCHANGED <<overflow_checks, panicked, rpc>>

EntFree(e) ==
    /\ UNCHANGED <<wvars, stages, sched, hist, avars>>
    /\ ~panicked /\ AllIdle
    /\ FreeTable(entities, e).ret => Len(FlushTable(entities).pending) < MaxPending
    /\ ~FreePanics(entities, e, overflow_checks)
    /\ LET r == FreeTable(entities, e)
       IN  /\ entities' = r.E
           /\ ret' = Ret("free", NoEntity, r.ret)
    /\ reserved' = <<>>
    /\ track' = IF track.stage \in {1, 3} /\ e = track.last
                 THEN [stage |-> 2, first |-> e, last |-> e]
                 ELSE NoTrack
    /\ UNCHANGED <<overflow_checks, panicked, rpc>>

\* `self.len -= 1` underflows in a build that checks overflow
EntFreePanic(e) ==
    /\ UNCHANGED <<wvars, stages, sched, hist, avars>>
    /\ ~panicked /\ AllIdle
    /\ Len(FlushTable(entities).pending) < MaxPending
    /\ FreePanics(entities, e, overflow_checks)
    /\ entities' = FreePanicTable(entities, e)
    /\ panicked' = TRUE
    /\ ret' = Ret("panic", NoEntity, FALSE)
    /\ reserved' = <<>>
    /\ track' = NoTrack
    /\ UNCHANGED <<overflow_checks, rpc>>

EntFlush ==
    /\ UNCHANGED <<wvars, stages, sched, hist, avars>>
    /\ ~panicked /\ AllIdle
    /\ entities' = FlushTable(entities)
    /\ ret' = Ret("flush", NoEntity, NeedsFlush(entities))
    /\ reserved' = <<>>
    /\ track' = NoTrack
    /\ UNCHANGED <<overflow_checks, panicked, rpc>>

\* reserve(), first half: the atomic fetch_sub on free_cursor
ReserveFetch(t) ==
    /\ UNCHANGED <<wvars, stages, sched, hist, avars>>
    /\ ~panicked
    /\ rpc[t].state = "idle"
    /\ entities.free_cursor > 0 \/ Len(entities.meta) - entities.free_cursor < MaxMeta
    /\ rpc' = [rpc EXCEPT ![t] = [state |-> "fetched", n |-> entities.free_cursor]]
    /\ entities' = [entities EXCEPT !.free_cursor = FetchSub(entities.free_cursor)]
    /\ UNCHANGED <<overflow_checks, panicked, reserved, ret, track>>

\* reserve(), second half: read the free list or synthesize an index
ReserveRead(t) ==
    /\ UNCHANGED <<wvars, stages, sched, hist, avars>>
    /\ rpc[t].state = "fetched"
    /\ LET e == ReserveEntity(entities, rpc[t].n)
       IN  /\ reserved' = Append(reserved, e)
           /\ ret' = Ret("reserve", e, TRUE)
    /\ rpc' = [rpc EXCEPT ![t] = Idle]
    /\ track' = NoTrack
    /\ UNCHANGED <<entities, overflow_checks, panicked>>

EntNext ==
    \/ EntAlloc
    \/ \E e \in Handles : EntAllocAt(e)
    \/ \E e \in Handles : EntFree(e)
    \/ \E e \in Handles : EntFreePanic(e)
    \/ EntFlush
    \/ \E t \in Threads : ReserveFetch(t)
    \/ \E t \in Threads : ReserveRead(t)

SpecEnt == EntInit /\ [][EntNext]_vars

(***************************************************************************)
(* Component storage: BlobVec, Column, SparseArray, DenseStorage.  A      *)
(* BlobVec is the sequence of its initialized items; rows are 0-based in  *)
(* the code and stored at position row + 1.                                *)
(***************************************************************************)
MaxEntities == 2     \* entity handles given to the world have index below this
MaxValue == 2        \* component values are 1..MaxValue

Components == {"A", "B"}
Values == 1 .. MaxValue
WorldHandles == [index : 0 .. (MaxEntities - 1), generation : 0 .. MaxGen]
\* Option::None of a sparse entry or of a returned component
None == -1

ChangeTicksNew(change_tick) == [added |-> change_tick, changed |-> change_tick]
\* a stamp that takes the row for newly added
SetAddedAndChanged(ticks, change_tick) == [added |-> change_tick, changed |-> change_tick]
SetChanged(ticks, change_tick) == [ticks EXCEPT !.changed = change_tick]

BlobPush(data, value) == Append(data, value)
BlobReplaceUnchecked(data, index, value) == SeqSet(data, index + 1, value)
\* copies the last item out, copies the item at index over the last item,
\* then drops the last slot from the length
BlobSwapRemoveUnchecked(data, index) ==
    [data |-> SubSeq(SeqSet(data, Len(data), data[index + 1]), 1, Len(data) - 1),
     out |-> data[Len(data)]]
\* swaps the item at index with the last item, then drops the last slot
BlobSwapRemoveAndDropUnchecked(data, index) ==
    SubSeq(SeqSet(SeqSet(data, index + 1, data[Len(data)]), Len(data), data[index + 1]),
           1, Len(data) - 1)

ColumnNew == [data |-> <<>>, ticks |-> <<>>]
ColumnLen(column) == Len(column.data)
ColumnPush(column, value, change_ticks) ==
    [data |-> BlobPush(column.data, value), ticks |-> Append(column.ticks, change_ticks)]
\* a replace that marks the row changed and leaves the old value in place
ColumnKeep(column, index, value, change_tick) ==
    [data |-> column.data,
     ticks |-> SeqSet(column.ticks, index + 1, SetChanged(column.ticks[index + 1], change_tick))]
ColumnReplace(column, index, value, change_tick) ==
    [data |-> BlobReplaceUnchecked(column.data, index, value),
     ticks |-> SeqSet(column.ticks, index + 1, SetChanged(column.ticks[index + 1], change_tick))]
ColumnSwapRemoveUnchecked(column, index) ==
    LET r == BlobSwapRemoveUnchecked(column.data, index)
    IN  [column |-> [data |-> r.data, ticks |-> SwapRemove(column.ticks, index + 1)],
         out |-> r.out]
ColumnSwapRemoveAndDropUnchecked(column, index) ==
    [data |-> BlobSwapRemoveAndDropUnchecked(column.data, index),
     ticks |-> SwapRemove(column.ticks, index + 1)]
ColumnGetData(column, index) == IF index < ColumnLen(column) THEN column.data[index + 1] ELSE None

SparseContains(sparse, index) == index < Len(sparse) /\ sparse[index + 1] # None
SparseGet(sparse, index) == IF index < Len(sparse) THEN sparse[index + 1] ELSE None
SparseInsert(sparse, index, value) ==
    SeqSet(Resize(sparse, IF index >= Len(sparse) THEN index + 1 ELSE Len(sparse), None),
           index + 1, value)
SparseRemove(sparse, index) ==
    IF index < Len(sparse) THEN SeqSet(sparse, index + 1, None) ELSE sparse

DenseNew == [dense |-> ColumnNew, entities |-> <<>>, sparse |-> <<>>]

\* a swap that drops the row from the dense list and leaves the sparse entry
\* of the moved entity pointing at its old row
DenseSwapStale(dense, ents, sparse, index) ==
    [dense |-> dense, entities |-> SwapRemove(ents, index + 1), sparse |-> sparse]
\* DenseStorage::swap, called after the column has dropped row index
DenseSwap(dense, ents, sparse, index) ==
    LET entities1 == SwapRemove(ents, index + 1)
    IN  [dense |-> dense,
         entities |-> entities1,
         sparse |-> IF index # ColumnLen(dense)
                    THEN SeqSet(sparse, entities1[index + 1] + 1, index)
                    ELSE sparse]

DenseContains(storage, entity) == SparseContains(storage.sparse, entity.index)

DenseInsert(storage, entity, value, change_tick) ==
    LET index == SparseGet(storage.sparse, entity.index)
    IN  IF index # None
        THEN [storage EXCEPT !.dense = ColumnReplace(storage.dense, index, value, change_tick)]
        ELSE [dense |-> ColumnPush(storage.dense, value, ChangeTicksNew(change_tick)),
              entities |-> Append(storage.entities, entity.index),
              sparse |-> SparseInsert(storage.sparse, entity.index, ColumnLen(storage.dense))]

\* the caller has checked that the storage contains the entity
DenseRemoveUnchecked(storage, entity) ==
    LET index == storage.sparse[entity.index + 1]
        r == ColumnSwapRemoveUnchecked(storage.dense, index)
    IN  [storage |-> DenseSwap(r.column, storage.entities,
                               SparseRemove(storage.sparse, entity.index), index),
         out |-> r.out]

DenseRemoveAndDrop(storage, entity) ==
    LET index == SparseGet(storage.sparse, entity.index)
    IN  IF index # None
        THEN DenseSwap(ColumnSwapRemoveAndDropUnchecked(storage.dense, index),
                       storage.entities, SparseRemove(storage.sparse, entity.index), index)
        ELSE storage

DenseGet(storage, entity) ==
    LET index == SparseGet(storage.sparse, entity.index)
    IN  IF index = None THEN None ELSE ColumnGetData(storage.dense, index)

\* remove the entity's row from every storage
StoragesRemove(storage, entity) ==
    [c \in Components |-> DenseRemoveAndDrop(storage[c], entity)]

(***************************************************************************)
(* World.  Every operation is a function from the world to the new world, *)
(* the returned value and whether the call panicked.                       *)
(***************************************************************************)
WorldDefault ==
    [entities |-> EntitiesDefault,
     storage |-> [c \in Components |-> DenseNew],
     change_tick |-> 1]

WorldFlush(w) == [w EXCEPT !.entities = FlushTable(w.entities)]

WorldSpawn(w) ==
    LET r == AllocTable(w.entities)
    IN  [world |-> [w EXCEPT !.entities = r.E], ret |-> r.ret]

\* storage.remove(entity), then entities.free(entity)
WorldDespawn(w, entity, checks) ==
    LET storage1 == StoragesRemove(w.storage, entity)
    IN  IF FreePanics(w.entities, entity, checks)
        THEN [world |-> [w EXCEPT !.storage = storage1,
                                  !.entities = FreePanicTable(w.entities, entity)],
              ret |-> FALSE, panic |-> TRUE]
        ELSE [world |-> [w EXCEPT !.storage = storage1,
                                  !.entities = FreeTable(w.entities, entity).E],
              ret |-> FreeTable(w.entities, entity).ret, panic |-> FALSE]

WorldGetOrSpawn(w, entity, checks) ==
    IF Contains(w.entities, entity) THEN [world |-> w, panic |-> FALSE]
    ELSE LET r == AllocAtTable(w.entities, entity)
             w1 == [w EXCEPT !.entities = r.E]
         IN  IF r.ret
             THEN [world |-> WorldDespawn(w1, entity, checks).world,
                   panic |-> WorldDespawn(w1, entity, checks).panic]
             ELSE [world |-> w1, panic |-> FALSE]

EntityMutInsert(w, entity, c, value) ==
    [w EXCEPT !.storage[c] = DenseInsert(w.storage[c], entity, value, w.change_tick)]

EntityMutRemove(w, entity, c) ==
    IF ~DenseContains(w.storage[c], entity) THEN [world |-> w, out |-> None]
    ELSE LET r == DenseRemoveUnchecked(w.storage[c], entity)
         IN  [world |-> [w EXCEPT !.storage[c] = r.storage], out |-> r.out]

EntityGet(w, entity, c) == DenseGet(w.storage[c], entity)

(***************************************************************************)
(* Commands.  A system queues commands while it holds &World; the queue   *)
(* is applied afterwards with &mut World.                                  *)
(***************************************************************************)
NumSystems == 2      \* systems of the stage, each with its own CommandQueue
MaxSetup == 3        \* direct calls on the world before the stage runs
MaxCommands == 2     \* commands queued by all systems of the stage together

Systems == 1 .. NumSystems
Command(kind, entity, c, value) == [kind |-> kind, entity |-> entity, c |-> c, value |-> value]

\* Command::apply of Insert, Remove and Despawn
CommandApply(w, command, checks) ==
    IF command.kind = "Despawn"
    THEN [world |-> WorldDespawn(w, command.entity, checks).world,
          panic |-> WorldDespawn(w, command.entity, checks).panic]
    ELSE IF ~Contains(w.entities, command.entity)
    THEN [world |-> w, panic |-> TRUE]
    ELSE IF command.kind = "Insert"
    THEN [world |-> EntityMutInsert(w, command.entity, command.c, command.value),
          panic |-> FALSE]
    ELSE [world |-> EntityMutRemove(w, command.entity, command.c).world, panic |-> FALSE]

RECURSIVE Drain(_, _, _)
Drain(w, queue, checks) ==
    IF queue = <<>> THEN [world |-> w, panic |-> FALSE]
    ELSE LET r == CommandApply(w, Head(queue), checks)
         IN  IF r.panic THEN r ELSE Drain(r.world, Tail(queue), checks)

CommandQueueApply(w, queue, checks) == Drain(WorldFlush(w), queue, checks)

(***************************************************************************)
(* The world driven directly (phase "world"), and one pass of a stage     *)
(* over it: direct calls set the world up (phase "setup"), the systems    *)
(* queue commands (phase "systems"), the queues are applied in system     *)
(* order (phase "apply").                                                  *)
(***************************************************************************)
WRet(op, ent, c, val, ok, live) ==
    [op |-> op, ent |-> ent, c |-> c, val |-> val, ok |-> ok, live |-> live]
NoRet == WRet("none", NoEntity, "A", None, FALSE, FALSE)
NoQueues == [q \in Systems |-> <<>>]

Direct == phase = "world" \/ (phase = "setup" /\ steps < MaxSetup)
Counted == IF phase = "setup" THEN steps + 1 ELSE steps
EntUnused == UNCHANGED <<entities, overflow_checks, rpc, reserved, track, stages, sched, hist, avars>>

WorldInitial ==
    /\ entities = EntitiesDefault
    /\ overflow_checks \in BOOLEAN
    /\ panicked = FALSE
    /\ rpc = [t \in Threads |-> Idle]
    /\ reserved = <<>>
    /\ ret = NoRet
    /\ track = NoTrack
    /\ world = WorldDefault
    /\ queues = NoQueues
    /\ spawned = NoQueues
    /\ steps = 0
    /\ stages = <<>> /\ sched = 0 /\ hist = 0
    /\ AuxIdle

WInit == WorldInitial /\ phase = "world"

WSpawn ==
    /\ ~panicked /\ Direct
    /\ \/ FlushTable(world.entities).pending # <<>>
       \/ Len(FlushTable(world.entities).meta) < MaxEntities
    /\ world' = WorldSpawn(world).world
    /\ ret' = WRet("spawn", WorldSpawn(world).ret, "A", None, TRUE, FALSE)
    /\ steps' = Counted
    /\ UNCHANGED <<panicked, phase, queues, spawned>>
    /\ EntUnused

WDespawn(e) ==
    /\ ~panicked /\ Direct
    /\ Len(FlushTable(world.entities).pending) < MaxPending
    /\ LET r == WorldDespawn(world, e, overflow_checks)
       IN  /\ world' = r.world
           /\ panicked' = r.panic
           /\ ret' = WRet("despawn", e, "A", None, r.ret, Contains(world.entities, e))
    /\ steps' = Counted
    /\ UNCHANGED <<phase, queues, spawned>>
    /\ EntUnused

WGetOrSpawn(e) ==
    /\ ~panicked /\ Direct
    /\ Len(FlushTable(world.entities).pending) < MaxPending
    /\ LET r == WorldGetOrSpawn(world, e, overflow_checks)
       IN  /\ world' = r.world
           /\ panicked' = r.panic
    /\ ret' = WRet("get_or_spawn", e, "A", None, TRUE, Contains(world.entities, e))
    /\ steps' = Counted
    /\ UNCHANGED <<phase, queues, spawned>>
    /\ EntUnused

\* world.entity_mut(e).insert(value); entity_mut panics unless e is contained
WInsert(e, c, value) ==
    /\ ~panicked /\ Direct
    /\ Contains(world.entities, e)
    /\ world' = EntityMutInsert(world, e, c, value)
    /\ ret' = WRet("insert", e, c, value, DenseContains(world.storage[c], e), TRUE)
    /\ steps' = Counted
    /\ UNCHANGED <<panicked, phase, queues, spawned>>
    /\ EntUnused

\* world.entity_mut(e).remove::<T>()
WRemove(e, c) ==
    /\ ~panicked /\ Direct
    /\ Contains(world.entities, e)
    /\ world' = EntityMutRemove(world, e, c).world
    /\ ret' = WRet("remove", e, c, EntityMutRemove(world, e, c).out,
                   DenseContains(world.storage[c], e), TRUE)
    /\ steps' = Counted
    /\ UNCHANGED <<panicked, phase, queues, spawned>>
    /\ EntUnused

WNext ==
    \/ WSpawn
    \/ \E e \in WorldHandles : WDespawn(e)
    \/ \E e \in WorldHandles : WGetOrSpawn(e)
    \/ \E e \in WorldHandles, c \in Components, value \in Values : WInsert(e, c, value)
    \/ \E e \in WorldHandles, c \in Components : WRemove(e, c)

SpecWorld == WInit /\ [][WNext]_vars

CInit == WorldInitial /\ phase = "setup"

\* the stage starts: its systems run and queue commands
BeginSystems ==
    /\ ~panicked /\ phase = "setup"
    /\ phase' = "systems"
    /\ steps' = 0
    /\ ret' = NoRet
    /\ UNCHANGED <<panicked, world, queues, spawned>>
    /\ EntUnused

\* commands.spawn().insert(value) in system q
CmdSpawnInsert(q, c, value) ==
    /\ phase = "systems" /\ steps < MaxCommands
    /\ \/ world.entities.free_cursor > 0
       \/ Len(world.entities.meta) - world.entities.free_cursor < MaxEntities
    /\ LET e == ReserveEntity(world.entities, world.entities.free_cursor)
       IN  /\ queues' = [queues EXCEPT ![q] = Append(@, Command("Insert", e, c, value))]
           /\ spawned' = [spawned EXCEPT ![q] = Append(@, Command("Spawn", e, c, value))]
    /\ world' = [world EXCEPT !.entities.free_cursor = FetchSub(world.entities.free_cursor)]
    /\ steps' = steps + 1
    /\ UNCHANGED <<panicked, phase, ret>>
    /\ EntUnused

\* commands.entity(e).despawn() in system q; entity() panics unless e is contained
CmdDespawn(q, e) ==
    /\ phase = "systems" /\ steps < MaxCommands
    /\ Contains(world.entities, e)
    /\ queues' = [queues EXCEPT ![q] = Append(@, Command("Despawn", e, "A", None))]
    /\ steps' = steps + 1
    /\ UNCHANGED <<panicked, phase, ret, world, spawned>>
    /\ EntUnused

\* commands.entity(e).remove::<T>() in system q
CmdRemove(q, e, c) ==
    /\ phase = "systems" /\ steps < MaxCommands
    /\ Contains(world.entities, e)
    /\ queues' = [queues EXCEPT ![q] = Append(@, Command("Remove", e, c, None))]
    /\ steps' = steps + 1
    /\ UNCHANGED <<panicked, phase, ret, world, spawned>>
    /\ EntUnused

\* every system has finished: apply_buffers starts; steps counts the queues applied
BeginApply ==
    /\ phase = "systems"
    /\ phase' = "apply"
    /\ steps' = 0
    /\ UNCHANGED <<panicked, ret, world, queues, spawned>>
    /\ EntUnused

\* apply_buffers: the next system's queue is applied
ApplyBuffer ==
    /\ ~panicked /\ phase = "apply" /\ steps < NumSystems
    /\ LET r == CommandQueueApply(world, queues[steps + 1], overflow_checks)
       IN  /\ world' = r.world
           /\ panicked' = r.panic
    /\ queues' = [queues EXCEPT ![steps + 1] = <<>>]
    /\ steps' = steps + 1
    /\ UNCHANGED <<phase, ret, spawned>>
    /\ EntUnused

CNext ==
    \/ WSpawn
    \/ \E e \in WorldHandles : WDespawn(e)
    \/ \E e \in WorldHandles : WGetOrSpawn(e)
    \/ \E e \in WorldHandles, c \in Components, value \in Values : WInsert(e, c, value)
    \/ \E e \in WorldHandles, c \in Components : WRemove(e, c)
    \/ BeginSystems
    \/ \E q \in Systems, c \in Components, value \in Values : CmdSpawnInsert(q, c, value)
    \/ \E q \in Systems, e \in WorldHandles : CmdDespawn(q, e)
    \/ \E q \in Systems, e \in WorldHandles, c \in Components : CmdRemove(q, e, c)
    \/ BeginApply
    \/ ApplyBuffer

SpecCmd == CInit /\ [][CNext]_vars

(***************************************************************************)
(* The scheduler: Access, systems and their descriptors, the dependency    *)
(* sort of a stage.  Positions in a Vec are 1-based here.                  *)
(***************************************************************************)
NumStageSystems == 3   \* systems added to the first stage
MaxRuns == 2           \* Schedule::run_once is called at most this often

ResourceIds == {"X"}

\* Access: the read and write bitsets and the read_all flag
AccessDefault == [read |-> {}, write |-> {}, read_all |-> FALSE]
AccessAddRead(access, index) == [access EXCEPT !.read = @ \cup {index}]
AccessAddWrite(access, index) ==
    [access EXCEPT !.read = @ \cup {index}, !.write = @ \cup {index}]
AccessReadAll(access) == [access EXCEPT !.read_all = TRUE]
AccessExtend(access, other) ==
    [read |-> access.read \cup other.read,
     write |-> access.write \cup other.write,
     read_all |-> access.read_all \/ other.read_all]
AccessHasRead(access, index) == access.read_all \/ index \in access.read
AccessIsCompatible(access, other) ==
    IF access.read_all THEN other.write = {}
    ELSE IF other.read_all THEN access.write = {}
    ELSE access.write \cap other.read = {} /\ access.read \cap other.write = {}

\* a system parameter: Res<T>, ResMut<T>, Query<&T> ("Query"), Query<&mut T>
\* ("QueryMut"), &World, Commands or Local<T>
Param(kind, id) == [kind |-> kind, id |-> id]
\* SystemParamState::init of one parameter on the system's meta.access
ParamInit(access, param) ==
    CASE param.kind = "Res" -> AccessAddRead(access, param.id)
      [] param.kind = "ResMut" -> AccessAddWrite(access, param.id)
      [] param.kind = "World" -> AccessReadAll(access)
      [] param.kind = "Query" ->
             AccessExtend(access, AccessAddRead(AccessDefault, param.id))
      [] param.kind = "QueryMut" ->
             AccessExtend(access, AccessAddWrite(AccessDefault, param.id))
      [] OTHER -> access
\* the tuple of parameters is initialised in order
RECURSIVE ParamsInit(_, _)
ParamsInit(access, params) ==
    IF params = <<>> THEN access
    ELSE ParamsInit(ParamInit(access, Head(params)), Tail(params))

\* a system: kind "function", "exclusive" or "pipe"; params are the
\* parameters of the function (of both halves of a pipe); access is
\* SystemMeta::access
IntoSystem(kind, params) == [kind |-> kind, params |-> params, access |-> AccessDefault]
\* IntoPipeSystem::pipe: the union of what the two un-initialised halves hold
Pipe(params) ==
    [kind |-> "pipe", params |-> params,
     access |-> AccessExtend(IntoSystem("function", params).access,
                             IntoSystem("function", <<>>).access)]
\* meta.access.clear(), then the parameters are initialised
FunctionSystemInit(system) ==
    [system EXCEPT !.access = ParamsInit(AccessDefault, system.params)]
\* PipeSystem::init initialises the two halves and leaves its own meta alone
PipeSystemInit(system) == system
SystemInit(system) ==
    CASE system.kind = "function" -> FunctionSystemInit(system)
      [] system.kind = "pipe" -> PipeSystemInit(system)
      [] OTHER -> system
HasCommands(system) == \E i \in 1 .. Len(system.params) : system.params[i].kind = "Commands"

SystemDescriptor(system, labels, before, after) ==
    [system |-> system, labels |-> labels, before |-> before, after |-> after]
\* SystemContainer::from_descriptor; id names the system in the history
SystemContainerFromDescriptor(descriptor, id) ==
    [id |-> id, system |-> descriptor.system, labels |-> descriptor.labels,
     before |-> descriptor.before, after |-> descriptor.after,
     dependencies |-> {}, should_run |-> TRUE]

\* the systems a stage is built from
Descriptors ==
    { SystemDescriptor(IntoSystem("function", <<Param("ResMut", "X"), Param("Commands", "")>>),
                       {"L1"}, {}, {}),
      SystemDescriptor(IntoSystem("function", <<Param("Res", "X")>>), {}, {}, {"L1"}),
      SystemDescriptor(IntoSystem("function", <<Param("World", "")>>), {"L2"}, {"L1"}, {}),
      SystemDescriptor(IntoSystem("exclusive", <<Param("Local", "")>>), {"L1"}, {}, {"L2"}),
      SystemDescriptor(Pipe(<<Param("ResMut", "X"), Param("Commands", "")>>), {}, {}, {}),
      SystemDescriptor(IntoSystem("function", <<>>), {"L2"}, {}, {"L2"}),
      SystemDescriptor(IntoSystem("function", <<Param("Local", "")>>), {"L2"}, {}, {"L1"}),
      SystemDescriptor(IntoSystem("function", <<Param("Local", "")>>), {"L1"}, {}, {"L2"}) }
LastDescriptor == SystemDescriptor(IntoSystem("function", <<Param("Res", "X"), Param("Commands", "")>>), {}, {}, {})

(***************************************************************************)
(* SystemStage::rebuild_dependency_graph.  The graph and the unvisited     *)
(* set are hash containers: their iteration order is arbitrary, so the     *)
(* sort yields a set of outcomes.                                          *)
(***************************************************************************)
LabelIndices(systems, label) == {i \in 1 .. Len(systems) : label \in systems[i].labels}
Graph(systems) ==
    [index \in 1 .. Len(systems) |->
        UNION {LabelIndices(systems, label) : label \in systems[index].after}
        \cup {other \in 1 .. Len(systems) :
                 \E label \in systems[other].before : index \in LabelIndices(systems, label)}]

RECURSIVE Visit(_, _, _)
RECURSIVE VisitDependencies(_, _, _)
\* the states visit(node) can leave; cycle is its return value
Visit(node, graph, st) ==
    IF st.cycle THEN {st}
    ELSE IF node \in Range(st.current) THEN {[st EXCEPT !.cycle = TRUE]}
    ELSE IF node \notin st.unvisited THEN {st}
    ELSE LET entered == [st EXCEPT !.unvisited = @ \ {node}, !.current = Append(@, node)]
         IN { IF s.cycle THEN s
              ELSE [s EXCEPT !.sorted = Append(@, node),
                             !.current = SubSeq(@, 1, Len(@) - 1)] :
              s \in VisitDependencies(graph[node], graph, entered) }
VisitDependencies(dependencies, graph, st) ==
    IF dependencies = {} \/ st.cycle THEN {st}
    ELSE UNION { UNION { VisitDependencies(dependencies \ {d}, graph, s) :
                         s \in Visit(d, graph, st) } : d \in dependencies }
RECURSIVE SortLoop(_, _)
SortLoop(graph, st) ==
    IF st.cycle \/ st.unvisited = {} THEN {st}
    ELSE UNION { UNION { SortLoop(graph, s) : s \in Visit(index, graph, st) } :
                 index \in st.unvisited }
\* the containers in sorted order, dependencies left as positions before the sort
PermuteKeepIndices(systems, graph, sorted) ==
    [k \in 1 .. Len(sorted) |-> [systems[sorted[k]] EXCEPT !.dependencies = graph[sorted[k]]]]
\* the containers in sorted order, dependencies as sorted positions
Permute(systems, graph, sorted) ==
    [k \in 1 .. Len(sorted) |->
        [systems[sorted[k]] EXCEPT
            !.dependencies = {Position(sorted, d) : d \in graph[sorted[k]]}]]
RebuildDependencyGraph(systems) ==
    { IF st.cycle THEN [panic |-> TRUE, systems |-> systems]
      ELSE [panic |-> FALSE, systems |-> Permute(systems, Graph(systems), st.sorted)] :
      st \in SortLoop(Graph(systems),
                       [sorted |-> <<>>, current |-> <<>>,
                        unvisited |-> 1 .. Len(systems), cycle |-> FALSE]) }

(***************************************************************************)
(* SystemStage and the executors.                                          *)
(***************************************************************************)
\* ParallelExecutor::default; finished is the channel of finished systems
ExecutorNew(kind) ==
    [kind |-> kind, system_meta |-> <<>>, queued |-> {}, running |-> {},
     current_access |-> AccessDefault, finished |-> <<>>]
SystemStageNew(executor) ==
    [executor |-> executor, exclusive_systems |-> <<>>, parallel_systems |-> <<>>,
     uninitialized_exclusive |-> {}, uninitialized_parallel |-> {},
     systems_modified |-> TRUE]
AddSystem(stage, descriptor, id) ==
    LET container == SystemContainerFromDescriptor(descriptor, id)
    IN IF container.system.kind = "exclusive"
       THEN [stage EXCEPT !.exclusive_systems = Append(@, container),
                          !.uninitialized_exclusive = @ \cup {Len(stage.exclusive_systems) + 1},
                          !.systems_modified = TRUE]
       ELSE [stage EXCEPT !.parallel_systems = Append(@, container),
                          !.uninitialized_parallel = @ \cup {Len(stage.parallel_systems) + 1},
                          !.systems_modified = TRUE]
RECURSIVE WithSystems(_, _, _)
WithSystems(stage, descriptors, first_id) ==
    IF descriptors = <<>> THEN stage
    ELSE WithSystems(AddSystem(stage, Head(descriptors), first_id), Tail(descriptors), first_id + 1)

InitializeSystems(stage) ==
    [stage EXCEPT
        !.exclusive_systems = [i \in DOMAIN @ |->
            IF i \in stage.uninitialized_exclusive
            THEN [stage.exclusive_systems[i] EXCEPT !.system = SystemInit(@)]
            ELSE stage.exclusive_systems[i]],
        !.parallel_systems = [i \in DOMAIN @ |->
            IF i \in stage.uninitialized_parallel
            THEN [stage.parallel_systems[i] EXCEPT !.system = SystemInit(@)]
            ELSE stage.parallel_systems[i]],
        !.uninitialized_exclusive = {},
        !.uninitialized_parallel = {}]

\* SystemExecutor::systems_changed; the sequential executor keeps the default
SystemsChanged(executor, systems) ==
    IF executor.kind = "sequential" THEN executor
    ELSE [executor EXCEPT !.system_meta =
            [k \in 1 .. Len(systems) |->
                [dependants |-> {j \in 1 .. Len(systems) : k \in systems[j].dependencies},
                 dependencies_total |-> Cardinality(systems[k].dependencies),
                 dependencies_remaining |-> 0,
                 access |-> systems[k].system.access]]]

NoTasks == [i \in 1 .. NumStageSystems |-> "none"]
\* ParallelExecutor::prepare_systems from position index on
RECURSIVE PrepareSystems(_, _, _, _)
PrepareSystems(executor, tasks, systems, index) ==
    IF index > Len(systems) THEN [executor |-> executor, tasks |-> tasks]
    ELSE IF ~systems[index].should_run THEN PrepareSystems(executor, tasks, systems, index + 1)
    ELSE LET meta == executor.system_meta[index]
             dependencies_run == meta.dependencies_total = 0
             access_compatible == AccessIsCompatible(meta.access, executor.current_access)
             can_run == dependencies_run /\ access_compatible
             prepared ==
                 [executor EXCEPT
                     !.system_meta[index].dependencies_remaining =
                         IF meta.dependencies_total > 0 THEN meta.dependencies_total ELSE @,
                     !.queued = IF dependencies_run /\ ~access_compatible
                                THEN @ \cup {index} ELSE @,
                     !.running = IF can_run THEN @ \cup {index} ELSE @,
                     !.current_access = IF can_run THEN AccessExtend(@, meta.access) ELSE @]
         IN PrepareSystems(prepared,
                           [tasks EXCEPT ![index] = IF can_run THEN "ready" ELSE "waiting"],
                           systems, index + 1)

\* ParallelExecutor::process_finished_system; the dependants are distinct.
\* dependencies_remaining is a usize: 0 - 1 panics when overflow is checked
\* and wraps otherwise; the value is held as the residue nearest zero.
ProcessFinishedSystem(executor, index, checks) ==
    LET metas == executor.system_meta
        dependants == metas[index].dependants
    IN [panic |-> checks /\ \E d \in dependants : metas[d].dependencies_remaining = 0,
        executor |->
            [executor EXCEPT
                !.running = @ \ {index},
                !.system_meta = [k \in DOMAIN metas |->
                    IF k \in dependants
                    THEN [metas[k] EXCEPT !.dependencies_remaining = @ - 1]
                    ELSE metas[k]],
                !.queued = @ \cup {d \in dependants :
                                      metas[d].dependencies_remaining - 1 = 0}]]
\* recv, then try_recv until the channel is empty
RECURSIVE ProcessFinished(_, _)
ProcessFinished(executor, checks) ==
    IF executor.finished = <<>> THEN [panic |-> FALSE, executor |-> executor]
    ELSE LET one == ProcessFinishedSystem([executor EXCEPT !.finished = Tail(@)],
                                          Head(executor.finished), checks)
         IN IF one.panic THEN one ELSE ProcessFinished(one.executor, checks)

RebuildAccess(executor) ==
    [executor EXCEPT !.current_access =
        [read |-> UNION {executor.system_meta[i].access.read : i \in executor.running},
         write |-> UNION {executor.system_meta[i].access.write : i \in executor.running},
         read_all |-> \E i \in executor.running : executor.system_meta[i].access.read_all]]

\* ParallelExecutor::run_queued_systems over the positions queued on entry
RECURSIVE RunQueuedSystems(_, _, _, _)
RunQueuedSystems(executor, tasks, queued, index) ==
    IF index > Len(executor.system_meta) THEN [executor |-> executor, tasks |-> tasks]
    ELSE IF index \in queued
            /\ AccessIsCompatible(executor.system_meta[index].access, executor.current_access)
    THEN RunQueuedSystems(
             [executor EXCEPT
                 !.queued = @ \ {index},
                 !.running = @ \cup {index},
                 !.current_access = AccessExtend(@, executor.system_meta[index].access)],
             \* start.notify(1) wakes the task listening, if there is one
             [tasks EXCEPT ![index] = IF @ = "waiting" THEN "ready" ELSE @],
             queued, index + 1)
    ELSE RunQueuedSystems(executor, tasks, queued, index + 1)

\* System::apply: the system's command queue is drained into the world
SystemApplyNothing(pending, id) == pending
SystemApply(pending, id) == pending \ {id}
RECURSIVE ApplyAll(_, _)
ApplyAll(pending, systems) ==
    IF systems = <<>> THEN pending
    ELSE ApplyAll(SystemApply(pending, Head(systems).id), Tail(systems))

(***************************************************************************)
(* Schedule::run_once over two stages.  sched.pc is the position of the    *)
(* thread that called run_once; the tasks of the parallel executor move    *)
(* on their own.  hist records, per system id, whether it is running or    *)
(* has finished in this run_once, which systems hold unapplied commands,   *)
(* the pairs (a, b) where b started while a had not finished, and the      *)
(* pairs where b started before a conflicting a that the sort put first.   *)
(***************************************************************************)
NoHist ==
    [state |-> [id \in 1 .. (NumStageSystems + 1) |-> "idle"], unordered |-> {},
     overtaken |-> {}, pending |-> {}, applied |-> {}]
StageSystems(stage) == stage.parallel_systems \o stage.exclusive_systems
StageIds(stage) == {StageSystems(stage)[i].id : i \in 1 .. Len(StageSystems(stage))}
\* b is declared after a label of a, or a before a label of b
DeclaredBefore(a, b) ==
    \/ b.after \cap a.labels # {}
    \/ a.before \cap b.labels # {}
\* one of the two writes an id that the other reads or writes
Conflicts(a, b) ==
    \E id \in ResourceIds :
        \/ id \in a.write /\ (AccessHasRead(b, id) \/ id \in b.write)
        \/ id \in b.write /\ (AccessHasRead(a, id) \/ id \in a.write)
\* what the parameters of a system read and write
DeclaredAccess(container) == ParamsInit(AccessDefault, container.system.params)
\* the parallel systems that are to run, stand before the container in the
\* sorted list, conflict with it and have not started when it starts
Overtaken(h, stage, container) ==
    LET systems == stage.parallel_systems
    IN {<<systems[i].id, container.id>> : i \in
           {i \in 1 .. Len(systems) :
               /\ \E j \in 1 .. Len(systems) : i < j /\ systems[j].id = container.id
               /\ systems[i].should_run
               /\ Conflicts(DeclaredAccess(systems[i]), DeclaredAccess(container))
               /\ h.state[systems[i].id] = "idle"}}
HistStart(h, stage, container) ==
    [h EXCEPT
        !.state[container.id] = "running",
        !.overtaken = @ \cup Overtaken(h, stage, container),
        !.unordered = @ \cup
            {<<StageSystems(stage)[i].id, container.id>> : i \in
                {i \in 1 .. Len(StageSystems(stage)) :
                    /\ DeclaredBefore(StageSystems(stage)[i], container)
                    /\ h.state[StageSystems(stage)[i].id] # "finished"}}]
\* a system with a Commands parameter queues a command when it runs
HistFinish(h, container) ==
    [h EXCEPT
        !.state[container.id] = "finished",
        !.pending = IF HasCommands(container.system) THEN @ \cup {container.id} ELSE @]
HistApply(h, systems) ==
    [h EXCEPT
        !.pending = ApplyAll(@, systems),
        !.applied = @ \cup (h.pending \ ApplyAll(h.pending, systems))]

CurrentStage == stages[sched.stage]
StageOnly == UNCHANGED <<entities, overflow_checks, rpc, reserved, ret, track, wvars, avars>>

SInit ==
    /\ entities = EntitiesDefault
    /\ overflow_checks \in BOOLEAN
    /\ panicked = FALSE
    /\ rpc = [t \in Threads |-> Idle]
    /\ reserved = <<>>
    /\ ret = NoRet
    /\ track = NoTrack
    /\ world = 0 /\ phase = "schedule" /\ queues = <<>> /\ spawned = <<>> /\ steps = 0
    /\ \E kind \in {"sequential", "parallel"}, descriptors \in [1 .. NumStageSystems -> Descriptors] :
           stages = << WithSystems(SystemStageNew(ExecutorNew(kind)), descriptors, 1),
                       WithSystems(SystemStageNew(ExecutorNew(kind)), <<LastDescriptor>>,
                                   NumStageSystems + 1) >>
    /\ sched = [pc |-> "idle", stage |-> 1, runs |-> 0, index |-> 1, tasks |-> NoTasks]
    /\ hist = NoHist
    /\ AuxIdle

\* Schedule::run_once; no schedule criterion is set
RunOnce ==
    /\ ~panicked /\ sched.pc = "idle" /\ sched.runs < MaxRuns
    /\ sched' = [sched EXCEPT !.pc = "stage", !.stage = 1, !.runs = @ + 1]
    /\ hist' = NoHist
    /\ UNCHANGED <<panicked, stages>>
    /\ StageOnly

\* Stage::run up to systems_changed
StageBegin ==
    /\ ~panicked /\ sched.pc = "stage"
    /\ IF CurrentStage.systems_modified
       THEN LET init == InitializeSystems(CurrentStage)
            IN \E p \in RebuildDependencyGraph(init.parallel_systems),
                  x \in RebuildDependencyGraph(init.exclusive_systems) :
                   IF p.panic \/ x.panic
                   THEN /\ panicked' = TRUE
                        /\ stages' = [stages EXCEPT ![sched.stage] = init]
                        /\ sched' = [sched EXCEPT !.pc = "cycle"]
                   ELSE /\ panicked' = FALSE
                        /\ stages' = [stages EXCEPT ![sched.stage] =
                               [init EXCEPT
                                   !.systems_modified = FALSE,
                                   !.parallel_systems = p.systems,
                                   !.exclusive_systems = x.systems,
                                   !.executor = SystemsChanged(@, p.systems)]]
                        /\ sched' = [sched EXCEPT !.pc = "criteria", !.tasks = NoTasks]
       ELSE /\ sched' = [sched EXCEPT !.pc = "criteria", !.tasks = NoTasks]
            /\ UNCHANGED <<panicked, stages>>
    /\ UNCHANGED hist
    /\ StageOnly

\* RunCriteriaContainer::run on every container of a list
WithShouldRun(systems, should_run) ==
    [i \in DOMAIN systems |-> [systems[i] EXCEPT !.should_run = should_run[systems[i].id]]]

\* the run criterion of every container is evaluated; each may say Yes or No
RunCriteria ==
    /\ ~panicked /\ sched.pc = "criteria"
    /\ \E should_run \in [StageIds(CurrentStage) -> BOOLEAN] :
           stages' = [stages EXCEPT ![sched.stage] =
               [@ EXCEPT
                   !.exclusive_systems = WithShouldRun(@, should_run),
                   !.parallel_systems = WithShouldRun(@, should_run)]]
    /\ sched' = [sched EXCEPT !.pc = "execute", !.index = 1]
    /\ UNCHANGED <<panicked, hist>>
    /\ StageOnly

\* SequentialExecutor::run_systems, one system of the loop
SequentialRun ==
    /\ ~panicked /\ sched.pc = "execute" /\ CurrentStage.executor.kind = "sequential"
    /\ sched.index <= Len(CurrentStage.parallel_systems)
    /\ LET container == CurrentStage.parallel_systems[sched.index]
       IN hist' = IF container.should_run
                  THEN HistFinish(HistStart(hist, CurrentStage, container), container)
                  ELSE hist
    /\ sched' = [sched EXCEPT !.index = @ + 1]
    /\ UNCHANGED <<panicked, stages>>
    /\ StageOnly

SequentialReturn ==
    /\ ~panicked /\ sched.pc = "execute" /\ CurrentStage.executor.kind = "sequential"
    /\ sched.index > Len(CurrentStage.parallel_systems)
    /\ sched' = [sched EXCEPT !.pc = "apply"]
    /\ UNCHANGED <<panicked, stages, hist>>
    /\ StageOnly

\* ParallelExecutor::run_systems: prepare_systems spawns the tasks
PrepareSystemsStep ==
    /\ ~panicked /\ sched.pc = "execute" /\ CurrentStage.executor.kind = "parallel"
    /\ LET prepared == PrepareSystems(CurrentStage.executor, sched.tasks,
                                      CurrentStage.parallel_systems, 1)
       IN /\ stages' = [stages EXCEPT ![sched.stage].executor = prepared.executor]
          /\ sched' = [sched EXCEPT !.pc = "loop", !.tasks = prepared.tasks]
    /\ UNCHANGED <<panicked, hist>>
    /\ StageOnly

\* a spawned task that is not awaiting its start event runs its system
TaskStart(i) ==
    /\ ~panicked /\ sched.pc \in {"loop", "join"}
    /\ sched.tasks[i] = "ready"
    /\ sched' = [sched EXCEPT !.tasks[i] = "running"]
    /\ hist' = HistStart(hist, CurrentStage, CurrentStage.parallel_systems[i])
    /\ UNCHANGED <<panicked, stages>>
    /\ StageOnly

\* the system returns and the task sends its index on the channel
TaskFinish(i) ==
    /\ ~panicked /\ sched.pc \in {"loop", "join"}
    /\ sched.tasks[i] = "running"
    /\ sched' = [sched EXCEPT !.tasks[i] = "done"]
    /\ hist' = HistFinish(hist, CurrentStage.parallel_systems[i])
    /\ stages' = [stages EXCEPT ![sched.stage].executor.finished = Append(@, i)]
    /\ UNCHANGED panicked
    /\ StageOnly

\* one turn of the executor's loop: blocked in recv while systems run
ExecutorLoop ==
    /\ ~panicked /\ sched.pc = "loop"
    /\ LET executor == CurrentStage.executor
       IN /\ executor.queued \cup executor.running # {}
          /\ executor.running # {} => executor.finished # <<>>
          /\ LET processed == IF executor.running # {}
                              THEN ProcessFinished(executor, overflow_checks)
                              ELSE [panic |-> FALSE, executor |-> executor]
                 rebuilt == IF executor.running # {}
                            THEN RebuildAccess(processed.executor)
                            ELSE executor
                 started == RunQueuedSystems(rebuilt, sched.tasks, rebuilt.queued, 1)
             IN IF processed.panic
                THEN /\ panicked' = TRUE
                     /\ sched' = [sched EXCEPT !.pc = "panicked"]
                     /\ UNCHANGED stages
                ELSE /\ panicked' = FALSE
                     /\ stages' = [stages EXCEPT ![sched.stage].executor = started.executor]
                     /\ sched' = [sched EXCEPT !.tasks = started.tasks]
    /\ UNCHANGED hist
    /\ StageOnly

\* nothing is queued or running: the executor future completes
ExecutorExit ==
    /\ ~panicked /\ sched.pc = "loop"
    /\ CurrentStage.executor.queued \cup CurrentStage.executor.running = {}
    /\ sched' = [sched EXCEPT !.pc = "join"]
    /\ UNCHANGED <<panicked, stages, hist>>
    /\ StageOnly

\* TaskPool::scope returns once every spawned task has completed
ScopeJoin ==
    /\ ~panicked /\ sched.pc = "join"
    /\ \A i \in DOMAIN sched.tasks : sched.tasks[i] \in {"none", "done"}
    /\ sched' = [sched EXCEPT !.pc = "apply"]
    /\ UNCHANGED <<panicked, stages, hist>>
    /\ StageOnly

\* SystemStage::apply_buffers
ApplyBuffers ==
    /\ ~panicked /\ sched.pc = "apply"
    /\ hist' = HistApply(hist, CurrentStage.parallel_systems)
    /\ sched' = [sched EXCEPT !.pc = "exclusive", !.index = 1]
    /\ UNCHANGED <<panicked, stages>>
    /\ StageOnly

\* one exclusive system of the loop at the end of Stage::run: run, then apply
ExclusiveRun ==
    /\ ~panicked /\ sched.pc = "exclusive"
    /\ sched.index <= Len(CurrentStage.exclusive_systems)
    /\ LET container == CurrentStage.exclusive_systems[sched.index]
       IN hist' = IF container.should_run
                  THEN HistApply(HistFinish(HistStart(hist, CurrentStage, container),
                                            container),
                                 <<container>>)
                  ELSE hist
    /\ sched' = [sched EXCEPT !.index = @ + 1]
    /\ UNCHANGED <<panicked, stages>>
    /\ StageOnly

\* Stage::run returns; run_once goes on to the next stage or returns
StageReturn ==
    /\ ~panicked /\ sched.pc = "exclusive"
    /\ sched.index > Len(CurrentStage.exclusive_systems)
    /\ sched' = IF sched.stage < Len(stages)
                THEN [sched EXCEPT !.pc = "stage", !.stage = @ + 1]
                ELSE [sched EXCEPT !.pc = "idle"]
    /\ UNCHANGED <<panicked, stages, hist>>
    /\ StageOnly

SNext ==
    \/ RunOnce
    \/ StageBegin
    \/ RunCriteria
    \/ SequentialRun
    \/ SequentialReturn
    \/ PrepareSystemsStep
    \/ \E i \in 1 .. NumStageSystems : TaskStart(i)
    \/ \E i \in 1 .. NumStageSystems : TaskFinish(i)
    \/ ExecutorLoop
    \/ ExecutorExit
    \/ ScopeJoin
    \/ ApplyBuffers
    \/ ExclusiveRun
    \/ StageReturn

SpecStage == SInit /\ [][SNext]_vars

(***************************************************************************)
(* Properties of the entity table.                                         *)
(***************************************************************************)
NoDuplicates(s) == \A i, j \in 1 .. Len(s) : i # j => s[i] # s[j]
Stored(E, e) == E.meta[e.index + 1]

\* C6: for e = alloc() directly followed by free(e), the directly following
\* alloc() returns an entity with the index of e and the generation of e plus one.
C6_AllocFreeAlloc ==
    track.stage = 3 =>
        /\ ret.ent.index = track.first.index
        /\ ret.ent.generation = track.first.generation + 1

C6_Witness ==
    /\ track.stage = 3
    /\ ret.op = "alloc"
    /\ entities.len >= 2

\* C7: free(e) returns false and changes nothing (beyond the flush every
\* &mut operation starts with) when the generation of e does not match the
\* stored one or the index of e is already free; otherwise it returns true,
\* increments the stored generation, marks the index empty and pushes the
\* index onto the free list.
C7_FreeContract ==
    [][\A e \in Handles : EntFree(e) =>
          LET E == FlushTable(entities)
              refused == \/ e.index >= Len(E.meta)
                         \/ Stored(E, e).generation # e.generation
                         \/ Stored(E, e).is_empty
          IN  IF refused
              THEN ret'.ok = FALSE /\ entities' = E
              ELSE /\ ret'.ok = TRUE
                   /\ Stored(entities', e) = EntityMeta(Stored(E, e).generation + 1, TRUE)
                   /\ entities'.pending = Append(E.pending, e.index)]_vars

\* C8: the entities returned by reserve() between two flushes are pairwise
\* distinct and none of them is a live entity.
C8_ReserveDistinct ==
    /\ NoDuplicates(reserved)
    /\ \A i \in 1 .. Len(reserved) : ~Contains(entities, reserved[i])

\* C9: a reserved entity is not contained in the table, in the live-index set
\* or in the live count until flush runs; after flush every entity reserved
\* since the previous flush is contained and counted in len.
C9_ReserveThenFlush ==
    /\ [](\A i \in 1 .. Len(reserved) :
             /\ ~Contains(entities, reserved[i])
             /\ ~IdSetContains(entities.entity_id_set, reserved[i].index))
    /\ [][(\E t \in Threads : ReserveFetch(t) \/ ReserveRead(t)) =>
             /\ entities'.len = entities.len
             /\ entities'.meta = entities.meta
             /\ entities'.entity_id_set = entities.entity_id_set]_vars
    /\ [][EntFlush =>
             /\ \A i \in 1 .. Len(reserved) :
                    /\ Contains(entities', reserved[i])
                    /\ IdSetContains(entities'.entity_id_set, reserved[i].index)
             /\ entities'.len = entities.len + Len(reserved)]_vars

(***************************************************************************)
(* Properties of the world.                                                *)
(***************************************************************************)
\* C5: World::despawn(e) on a live entity e returns true, leaves no row of e
\* in any storage and leaves e not contained; a second despawn(e) then
\* returns false.
C5_DespawnLive ==
    (ret.op = "despawn" /\ ret.live) =>
        /\ ~panicked
        /\ ret.ok
        /\ \A c \in Components : ~DenseContains(world.storage[c], ret.ent)
        /\ ~Contains(world.entities, ret.ent)
        /\ ~WorldDespawn(world, ret.ent, overflow_checks).ret

\* C10: after EntityMut::insert of value v of component c on a live entity
\* e, get of c on e returns v, also when e already held a c and when other
\* entities hold c values.
C10_InsertThenGet ==
    ret.op = "insert" => EntityGet(world, ret.ent, ret.c) = ret.val

\* the insert replaced a value of e while another entity holds a different one
C10_Witness ==
    /\ ret.op = "insert" /\ ret.ok
    /\ EntityGet(world, ret.ent, ret.c) = ret.val
    /\ \E r \in 1 .. ColumnLen(world.storage[ret.c].dense) :
           /\ world.storage[ret.c].entities[r] # ret.ent.index
           /\ world.storage[ret.c].dense.data[r] # ret.val

\* C4: once the command queue of a system has been applied, every entity
\* that Commands::spawn returned to that system is contained in the world
\* and holds the component values queued for it with insert.
C4_SpawnedAfterApply ==
    (phase = "apply" /\ steps >= 1 /\ ~panicked) =>
        \A i \in 1 .. Len(spawned[steps]) :
            /\ Contains(world.entities, spawned[steps][i].entity)
            /\ EntityGet(world, spawned[steps][i].entity, spawned[steps][i].c)
                   = spawned[steps][i].value

(***************************************************************************)
(* Properties of the scheduler.                                            *)
(***************************************************************************)
\* C1: during a parallel stage run, any two systems that are running at the
\* same moment have compatible access: neither writes a component or
\* resource id that the other reads or writes.
C1_RunningCompatible ==
    \A i, j \in {k \in 1 .. Len(CurrentStage.parallel_systems) : sched.tasks[k] = "running"} :
        i # j => ~Conflicts(ParamsInit(AccessDefault, CurrentStage.parallel_systems[i].system.params),
                            ParamsInit(AccessDefault, CurrentStage.parallel_systems[j].system.params))

\* C2: in every stage run, with either executor, when B is declared after a
\* label of A, or A before a label of B, and both have run in that stage
\* run, A's run completed before B's run started.
C2_DeclaredOrder ==
    \A pair \in hist.unordered :
        ~(hist.state[pair[1]] = "finished" /\ hist.state[pair[2]] = "finished")

\* C3: in Schedule::run_once, when a system of the next stage starts, every
\* system of the stage before it that runs in this run_once has finished and
\* no system of that stage holds commands that have not been applied.
C3_StagesSequential ==
    (sched.stage = 2 /\ \E id \in StageIds(stages[2]) : hist.state[id] # "idle") =>
        /\ \A i \in 1 .. Len(StageSystems(stages[1])) :
               StageSystems(stages[1])[i].should_run =>
                   hist.state[StageSystems(stages[1])[i].id] = "finished"
        /\ hist.pending \cap StageIds(stages[1]) = {}

\* a system of the second stage runs under the parallel executor after two
\* parallel systems of the first stage queued commands that were applied
\* and an exclusive system of the first stage ran
C3_Witness ==
    /\ sched.stage = 2 /\ stages[2].executor.kind = "parallel"
    /\ \E id \in StageIds(stages[2]) : hist.state[id] = "running"
    /\ Cardinality(hist.applied \cap StageIds(stages[1])) >= 2
    /\ \E i \in 1 .. Len(stages[1].exclusive_systems) :
           hist.state[stages[1].exclusive_systems[i].id] = "finished"

\* C11: in any world state in which entity e holds a component c with value
\* v, also when other entities hold c, EntityMut::remove of c on e returns
\* Some(v), and afterwards e does not contain c.
C11_RemoveReturnsValue ==
    [][(ret'.op = "remove" /\ ret'.ok) =>
           /\ ret'.val = EntityGet(world, ret'.ent, ret'.c)
           /\ ~DenseContains(world'.storage[ret'.c], ret'.ent)]_vars

\* C12: after any sequence of insert, remove_unchecked and remove_and_drop on
\* a dense storage, every row r below the length has sparse[dense[r]] = r,
\* every sparse entry i with value r has dense[r] = i, and the data column,
\* the tick column and the dense list have equal length.
C12_DenseInvariant ==
    \A c \in Components :
        LET storage == world.storage[c]
        IN  /\ Len(storage.dense.data) = Len(storage.entities)
            /\ Len(storage.dense.ticks) = Len(storage.entities)
            /\ \A r \in 1 .. Len(storage.entities) :
                   SparseGet(storage.sparse, storage.entities[r]) = r - 1
            /\ \A i \in 1 .. Len(storage.sparse) :
                   storage.sparse[i] # None =>
                       /\ storage.sparse[i] < Len(storage.entities)
                       /\ storage.entities[storage.sparse[i] + 1] = i - 1

\* a remove took the first row out and the last row was moved into its place
C12_Witness ==
    /\ ret.op = "remove" /\ ret.ok /\ ret.ent.index = 0
    /\ world.storage[ret.c].entities = <<1>>
    /\ world.storage[ret.c].sparse = <<None, 0>>
    /\ Len(world.storage[ret.c].dense.data) = 1

(***************************************************************************)
(* Events.  Events<E> keeps two sequences of event instances; a            *)
(* ManualEventReader keeps the count of the events it has passed.          *)
(***************************************************************************)
MaxEvents == 4       \* Events::send is called at most this often
MaxUpdates == 4      \* Events::update is called at most this often
NumReaders == 2      \* ManualEventReaders reading the resource

EventValues == {"e1", "e2"}

EventsDefault ==
    [events_a |-> [events |-> <<>>, start_event_count |-> 0],
     events_b |-> [events |-> <<>>, start_event_count |-> 0],
     event_count |-> 0]

EventsSend(E, event) ==
    [E EXCEPT !.events_b.events = Append(@, [id |-> E.event_count, event |-> event]),
              !.event_count = @ + 1]

\* an update that swaps the sequences and does not clear the new events_b
EventsUpdateNoClear(E) ==
    [E EXCEPT !.events_a = E.events_b,
              !.events_b = [events |-> E.events_a.events,
                            start_event_count |-> E.event_count]]
\* an update that drops the events of both sequences
EventsUpdateClearBoth(E) ==
    [E EXCEPT !.events_a = [events |-> <<>>, start_event_count |-> E.events_b.start_event_count],
              !.events_b = [events |-> <<>>, start_event_count |-> E.event_count]]
\* mem::swap, events_b.clear(), events_b.start_event_count = event_count
EventsUpdate(E) ==
    [E EXCEPT !.events_a = E.events_b,
              !.events_b = [events |-> <<>>, start_event_count |-> E.event_count]]

SaturatingSub(a, b) == IF a > b THEN a - b ELSE 0
\* slice.get(index..).unwrap_or_default()
GetFrom(s, index) == IF index <= Len(s) THEN SubSeq(s, index + 1, Len(s)) ELSE <<>>

\* an iter that yields the unread events and leaves the reader where it was
IterWithIdForgetful(reader, E) ==
    [reader |-> reader,
     yielded |-> GetFrom(E.events_a.events,
                         SaturatingSub(reader.last_event_count, E.events_a.start_event_count))
                 \o GetFrom(E.events_b.events,
                            SaturatingSub(reader.last_event_count, E.events_b.start_event_count))]
\* ManualEventReader::iter_with_id with the iterator consumed to its end
IterWithId(reader, E) ==
    LET a == GetFrom(E.events_a.events,
                     SaturatingSub(reader.last_event_count, E.events_a.start_event_count))
        b == GetFrom(E.events_b.events,
                     SaturatingSub(reader.last_event_count, E.events_b.start_event_count))
        unread_count == Len(a) + Len(b)
        counts == {E.event_count - unread_count} \cup {(a \o b)[i].id + 1 : i \in 1 .. unread_count}
    IN  [reader |-> [last_event_count |-> CHOOSE m \in counts : \A n \in counts : m >= n],
         yielded |-> a \o b]

EvInit ==
    /\ entities = EntitiesDefault
    /\ overflow_checks = FALSE
    /\ panicked = FALSE
    /\ rpc = [t \in Threads |-> Idle]
    /\ reserved = <<>>
    /\ ret = NoRet
    /\ track = NoTrack
    /\ world = 0 /\ phase = "events" /\ queues = <<>> /\ spawned = <<>> /\ steps = 0
    /\ stages = <<>> /\ sched = 0 /\ hist = 0
    /\ tworld = 0 /\ tsys = 0 /\ tmon = 0
    /\ accs = 0 /\ fsys = 0
    /\ Rest("")
    /\ events = EventsDefault
    /\ readers = [r \in 1 .. NumReaders |-> [last_event_count |-> 0]]
    /\ seen = [yielded |-> [r \in 1 .. NumReaders |-> <<>>], age |-> <<>>, updates |-> 0]

EvSend(event) ==
    /\ events.event_count < MaxEvents
    /\ events' = EventsSend(events, event)
    /\ seen' = [seen EXCEPT !.age = Append(@, 0)]
    /\ UNCHANGED <<readers, tkvars, acvars, pvars>>

EvUpdate ==
    /\ seen.updates < MaxUpdates
    /\ events' = EventsUpdate(events)
    /\ seen' = [seen EXCEPT !.age = [i \in 1 .. Len(@) |-> @[i] + 1], !.updates = @ + 1]
    /\ UNCHANGED <<readers, tkvars, acvars, pvars>>

\* reader.iter(&events) consumed to its end
EvIter(r) ==
    LET it == IterWithId(readers[r], events)
    IN  /\ readers' = [readers EXCEPT ![r] = it.reader]
        /\ seen' = [seen EXCEPT !.yielded[r] =
                        @ \o [i \in 1 .. Len(it.yielded) |-> it.yielded[i].id]]
        /\ UNCHANGED <<events, tkvars, acvars, pvars>>

EvNext ==
    \/ \E event \in EventValues : EvSend(event)
    \/ EvUpdate
    \/ \E r \in 1 .. NumReaders : EvIter(r)

SpecEvents == EvInit /\ [][EvNext]_vars

\* C13: an event sent with Events::send is yielded by the iter of a fresh
\* reader after zero or one calls of Events::update, and is yielded by no
\* reader, whatever it has read before, after two calls of update.
C13_TwoFrameRetention ==
    \A i \in 1 .. Len(seen.age) :
        /\ seen.age[i] <= 1 =>
               \E x \in Range(IterWithId([last_event_count |-> 0], events).yielded) :
                   x.id = i - 1
        /\ seen.age[i] >= 2 =>
               \A count \in 0 .. events.event_count :
                   \A x \in Range(IterWithId([last_event_count |-> count], events).yielded) :
                       x.id # i - 1

\* events of age 0, 1 and 2 exist, and a reader has read the one of age 2
C13_Witness ==
    /\ \E i, j, k \in 1 .. Len(seen.age) :
           /\ seen.age[i] = 0 /\ seen.age[j] = 1 /\ seen.age[k] = 2
           /\ (k - 1) \in Range(seen.yielded[1])
    /\ seen.yielded[2] = <<>>

\* C14: across any interleaving of send, update and iter calls consumed to
\* their end, one reader yields each event at most once and yields events
\* in ascending event id (send) order.
C14_OncePerReaderAscending ==
    \A r \in 1 .. NumReaders :
        \A i, j \in 1 .. Len(seen.yielded[r]) :
            i < j => seen.yielded[r][i] < seen.yielded[r][j]

\* a reader has yielded every event over several iter calls between updates
\* while the other reader has missed one
C14_Witness ==
    /\ Len(seen.yielded[1]) = MaxEvents
    /\ seen.updates >= 2
    /\ readers[2].last_event_count = MaxEvents
    /\ Len(seen.yielded[2]) \in 1 .. (MaxEvents - 1)

(***************************************************************************)
(* Change detection.  One entity holds one component; a schedule of two   *)
(* stages runs a system that may mutate it through Query<&mut T> (stage   *)
(* A) and a system that filters on Added<T> and Changed<T> (stage B).     *)
(* Ticks are u32 in the program; here they are TickBits wide and the      *)
(* threshold is scaled with them.                                          *)
(***************************************************************************)
TickBits == 4                 \* width of a change tick
CHECK_TICK_THRESHOLD == 2     \* scaled to the width; 518_400_000 of 2^32 in the program

TickModulus == 2 ^ TickBits
MAX_CHANGE_AGE == (TickModulus - 1) - (2 * CHECK_TICK_THRESHOLD - 1)
WrappingSub(a, b) == (a - b + TickModulus) % TickModulus
Min(a, b) == IF a < b THEN a ELSE b

\* is_added without the clamp to MAX_CHANGE_AGE
IsAddedUnclamped(ticks, last_change_tick, change_tick) ==
    WrappingSub(change_tick, last_change_tick) > WrappingSub(change_tick, ticks.added)
IsAdded(ticks, last_change_tick, change_tick) ==
    LET ticks_since_insert == Min(WrappingSub(change_tick, ticks.added), MAX_CHANGE_AGE)
        ticks_since_system == Min(WrappingSub(change_tick, last_change_tick), MAX_CHANGE_AGE)
    IN  ticks_since_system > ticks_since_insert
IsChanged(ticks, last_change_tick, change_tick) ==
    LET ticks_since_change == Min(WrappingSub(change_tick, ticks.changed), MAX_CHANGE_AGE)
        ticks_since_system == Min(WrappingSub(change_tick, last_change_tick), MAX_CHANGE_AGE)
    IN  ticks_since_system > ticks_since_change

\* ChangeTicks::check_tick
CheckTick(tick, change_tick) ==
    IF WrappingSub(change_tick, tick) > MAX_CHANGE_AGE THEN change_tick ELSE tick
CheckTicks(ticks, change_tick) ==
    [added |-> CheckTick(ticks.added, change_tick),
     changed |-> CheckTick(ticks.changed, change_tick)]
\* System::check_change_tick
SystemCheckChangeTick(last_change_tick, change_tick) ==
    IF WrappingSub(change_tick, last_change_tick) > MAX_CHANGE_AGE
    THEN WrappingSub(change_tick, MAX_CHANGE_AGE)
    ELSE last_change_tick

\* FunctionSystem::init on first use: no tick is stored for this world yet
SystemInitTick(system, change_tick) ==
    IF system.initialized THEN system
    ELSE [initialized |-> TRUE,
          last_change_tick |-> WrappingSub(change_tick, MAX_CHANGE_AGE)]

NoFetch ==
    [ran |-> FALSE, added |-> 0, changed |-> 0, last_change_tick |-> 0, change_tick |-> 0,
     is_added |-> FALSE, is_changed |-> FALSE]

\* World::new, then world.spawn().insert(v)
TInit ==
    /\ entities = EntitiesDefault
    /\ overflow_checks = FALSE
    /\ panicked = FALSE
    /\ rpc = [t \in Threads |-> Idle]
    /\ reserved = <<>>
    /\ ret = NoRet
    /\ track = NoTrack
    /\ world = 0 /\ phase = "ticks" /\ queues = <<>> /\ spawned = <<>> /\ steps = 0
    /\ stages = <<>> /\ sched = 0 /\ hist = 0
    /\ events = 0 /\ readers = 0 /\ seen = 0
    /\ accs = 0 /\ fsys = 0
    /\ Rest("")
    /\ tworld = [change_tick |-> 1, last_change_tick |-> 0, ticks |-> ChangeTicksNew(1)]
    /\ tsys = [pc |-> "idle",
               writer |-> [initialized |-> FALSE, last_change_tick |-> 0],
               detector |-> [initialized |-> FALSE, last_change_tick |-> 0]]
    /\ tmon = [mutated |-> FALSE, dirty |-> TRUE, clean |-> FALSE, fetch |-> NoFetch]

\* world.entity_mut(e).insert(v) between two runs: the value is replaced
TInsert ==
    /\ tsys.pc = "idle"
    /\ tworld' = [tworld EXCEPT !.ticks = SetChanged(@, tworld.change_tick)]
    /\ tmon' = [tmon EXCEPT !.dirty = TRUE]
    /\ UNCHANGED <<tsys, evvars, acvars, pvars>>

\* Schedule::run_once enters stage A: the system is initialised on first
\* use; it is skipped by its run criterion, or runs and leaves the
\* component alone, or runs and dereferences it mutably; then the stage
\* checks its systems' ticks
TStageA(mode) ==
    /\ tsys.pc = "idle"
    /\ LET system == SystemInitTick(tsys.writer, tworld.change_tick)
           change_tick == tworld.change_tick
           after == IF mode = "skip" THEN change_tick ELSE (change_tick + 1) % TickModulus
       IN  /\ tworld' = [tworld EXCEPT
                  !.change_tick = after,
                  !.ticks = IF mode = "mutate" THEN SetChanged(@, change_tick) ELSE @]
           /\ tsys' = [tsys EXCEPT
                  !.pc = "B",
                  !.writer = [system EXCEPT !.last_change_tick =
                                 SystemCheckChangeTick(IF mode = "skip" THEN @ ELSE change_tick,
                                                       after)]]
    /\ tmon' = [tmon EXCEPT !.mutated = (mode = "mutate"),
                            !.dirty = @ \/ mode = "mutate",
                            !.clean = FALSE,
                            !.fetch = NoFetch]
    /\ UNCHANGED <<evvars, acvars, pvars>>

\* stage B: the system with Added<T> and Changed<T> filters is initialised on
\* first use and runs unless its run criterion skips it
TStageB(run) ==
    /\ tsys.pc = "B"
    /\ LET system == SystemInitTick(tsys.detector, tworld.change_tick)
           change_tick == tworld.change_tick
           after == IF run THEN (change_tick + 1) % TickModulus ELSE change_tick
       IN  /\ tworld' = [tworld EXCEPT !.change_tick = after]
           /\ tsys' = [tsys EXCEPT
                  !.pc = "end",
                  !.detector = [system EXCEPT !.last_change_tick =
                                   SystemCheckChangeTick(IF run THEN change_tick ELSE @, after)]]
           /\ tmon' = IF ~run THEN tmon
                      ELSE [tmon EXCEPT
                               !.dirty = FALSE,
                               !.clean = tsys.detector.initialized /\ ~tmon.dirty,
                               !.fetch = [ran |-> TRUE,
                                          added |-> tworld.ticks.added,
                                          changed |-> tworld.ticks.changed,
                                          last_change_tick |-> system.last_change_tick,
                                          change_tick |-> change_tick,
                                          is_added |-> IsAdded(tworld.ticks,
                                                               system.last_change_tick,
                                                               change_tick),
                                          is_changed |-> IsChanged(tworld.ticks,
                                                                   system.last_change_tick,
                                                                   change_tick)]]
    /\ UNCHANGED <<evvars, acvars, pvars>>

\* run_once after the last stage: world.check_change_ticks, clear_trackers
TRunEnd ==
    /\ tsys.pc = "end"
    /\ tworld' = [tworld EXCEPT !.ticks = CheckTicks(@, tworld.change_tick),
                                !.last_change_tick = tworld.change_tick]
    /\ tsys' = [tsys EXCEPT !.pc = "idle"]
    /\ UNCHANGED <<tmon, evvars, acvars, pvars>>

TNext ==
    \/ TInsert
    \/ \E mode \in {"skip", "idle", "mutate"} : TStageA(mode)
    \/ \E run \in BOOLEAN : TStageB(run)
    \/ TRunEnd

SpecTicks == TInit /\ [][TNext]_vars

\* C15: in a schedule run in which a system of an earlier stage mutates a
\* component through Query<&mut T>, a system of a later stage with the
\* filter Changed<T> yields the entity in that run; in a following run with
\* no mutation or insertion of T since the filtering system last ran, it
\* does not yield it again.
C15_ChangedThenQuiet ==
    (tsys.pc = "end" /\ tmon.fetch.ran) =>
        /\ tmon.mutated => tmon.fetch.is_changed
        /\ tmon.clean => ~tmon.fetch.is_changed

\* C16 (amended): ChangeTicks::is_added(last_change_tick, change_tick) is
\* true exactly when min(change_tick - last_change_tick, MAX_CHANGE_AGE) >
\* min(change_tick - added, MAX_CHANGE_AGE) in wrapping arithmetic, and
\* is_changed is the same predicate with the changed tick in place of the
\* added tick.
C16_SinceSystemExceedsSinceTick ==
    tmon.fetch.ran =>
        LET f == tmon.fetch
            since_system == Min((f.change_tick - f.last_change_tick + TickModulus) % TickModulus,
                                MAX_CHANGE_AGE)
        IN  /\ f.is_added <=>
                   since_system > Min((f.change_tick - f.added + TickModulus) % TickModulus,
                                      MAX_CHANGE_AGE)
            /\ f.is_changed <=>
                   since_system > Min((f.change_tick - f.changed + TickModulus) % TickModulus,
                                      MAX_CHANGE_AGE)

\* C16 as stated: is_added is true exactly when min(change_tick - added,
\* MAX_CHANGE_AGE) > min(change_tick - last_change_tick, MAX_CHANGE_AGE), and
\* is_changed likewise with the changed tick.
C16_SinceTickExceedsSinceSystem ==
    tmon.fetch.ran =>
        LET f == tmon.fetch
            since_system == Min((f.change_tick - f.last_change_tick + TickModulus) % TickModulus,
                                MAX_CHANGE_AGE)
        IN  /\ f.is_added <=>
                   Min((f.change_tick - f.added + TickModulus) % TickModulus,
                       MAX_CHANGE_AGE) > since_system
            /\ f.is_changed <=>
                   Min((f.change_tick - f.changed + TickModulus) % TickModulus,
                       MAX_CHANGE_AGE) > since_system

\* the filters ran on a component added longer ago than MAX_CHANGE_AGE and
\* changed in this run: the clamp decides is_added, is_changed is true
C16_Witness ==
    /\ tmon.fetch.ran
    /\ (tmon.fetch.change_tick - tmon.fetch.added + TickModulus) % TickModulus > MAX_CHANGE_AGE
    /\ (tmon.fetch.change_tick - tmon.fetch.last_change_tick + TickModulus) % TickModulus
           > MAX_CHANGE_AGE
    /\ ~tmon.fetch.is_added
    /\ tmon.fetch.is_changed

\* C17: check_change_ticks(now) sets every stored added/changed tick t with
\* now.wrapping_sub(t) > MAX_CHANGE_AGE to now.wrapping_sub(MAX_CHANGE_AGE),
\* so that its age becomes exactly MAX_CHANGE_AGE, and leaves every other
\* stored tick unchanged.
C17_CheckClampsToMaxAge ==
    [][(tsys.pc = "end" /\ tsys'.pc = "idle") =>
           LET now == tworld.change_tick
               Checked(t) == IF (now - t + TickModulus) % TickModulus > MAX_CHANGE_AGE
                             THEN (now - MAX_CHANGE_AGE + TickModulus) % TickModulus
                             ELSE t
           IN  /\ tworld'.ticks.added = Checked(tworld.ticks.added)
               /\ tworld'.ticks.changed = Checked(tworld.ticks.changed)]_vars

(***************************************************************************)
(* Access on its own: two Access values built by add_read, add_write and  *)
(* read_all and compared by is_compatible; and the initialisation of one  *)
(* function system from its tuple of parameters.                           *)
(***************************************************************************)
MaxParams == 3       \* parameters of the function system

ComponentIds == {"X", "Y"}
ParamKinds == {"Res", "ResMut", "Query", "QueryMut", "Local"}

\* the checks of the parameters' init with ResMut<T> testing for an earlier
\* write only
ParamPanicsOnWriteOnly(access, param) ==
    CASE param.kind \in {"Res", "ResMut"} -> param.id \in access.write
      [] param.kind = "Query" -> param.id \in access.write
      [] param.kind = "QueryMut" -> AccessHasRead(access, param.id)
      [] OTHER -> FALSE
\* the assertion at the head of a parameter's init: has_write for Res,
\* has_read for ResMut, get_conflicts of the query's access for Query
ParamPanics(access, param) ==
    CASE param.kind = "Res" -> param.id \in access.write
      [] param.kind = "ResMut" -> AccessHasRead(access, param.id)
      [] param.kind = "Query" -> param.id \in access.write
      [] param.kind = "QueryMut" -> AccessHasRead(access, param.id)
      [] OTHER -> FALSE

\* FunctionSystem::init: the parameters are initialised in order until one panics
RECURSIVE ParamsInitChecked(_, _)
ParamsInitChecked(access, params) ==
    IF params = <<>> THEN [access |-> access, panicked |-> FALSE]
    ELSE IF ParamPanics(access, Head(params)) THEN [access |-> access, panicked |-> TRUE]
    ELSE ParamsInitChecked(ParamInit(access, Head(params)), Tail(params))

AcPinned ==
    /\ entities = EntitiesDefault
    /\ overflow_checks = FALSE
    /\ panicked = FALSE
    /\ rpc = [t \in Threads |-> Idle]
    /\ reserved = <<>>
    /\ ret = NoRet
    /\ track = NoTrack
    /\ world = 0 /\ phase = "access" /\ queues = <<>> /\ spawned = <<>> /\ steps = 0
    /\ stages = <<>> /\ sched = 0 /\ hist = 0
    /\ events = 0 /\ readers = 0 /\ seen = 0
    /\ tworld = 0 /\ tsys = 0 /\ tmon = 0

\* two Access::default()
AInit ==
    /\ AcPinned /\ Rest("")
    /\ accs = [a |-> AccessDefault, b |-> AccessDefault, called |-> FALSE, ret |-> FALSE]
    /\ fsys = 0

AccAddRead(side, index) ==
    /\ accs' = [accs EXCEPT ![side] = AccessAddRead(@, index), !.called = FALSE]
    /\ UNCHANGED <<fsys, evvars, tkvars, pvars>>

AccAddWrite(side, index) ==
    /\ accs' = [accs EXCEPT ![side] = AccessAddWrite(@, index), !.called = FALSE]
    /\ UNCHANGED <<fsys, evvars, tkvars, pvars>>

AccReadAll(side) ==
    /\ accs' = [accs EXCEPT ![side] = AccessReadAll(@), !.called = FALSE]
    /\ UNCHANGED <<fsys, evvars, tkvars, pvars>>

\* a.is_compatible(&b)
AccIsCompatible ==
    /\ accs' = [accs EXCEPT !.called = TRUE, !.ret = AccessIsCompatible(accs.a, accs.b)]
    /\ UNCHANGED <<fsys, evvars, tkvars, pvars>>

ANext ==
    \/ \E side \in {"a", "b"}, index \in ComponentIds : AccAddRead(side, index)
    \/ \E side \in {"a", "b"}, index \in ComponentIds : AccAddWrite(side, index)
    \/ \E side \in {"a", "b"} : AccReadAll(side)
    \/ AccIsCompatible

SpecAccess == AInit /\ [][ANext]_vars

\* a function system made from a function of up to MaxParams parameters
FInit ==
    /\ AcPinned /\ Rest("")
    /\ accs = 0
    /\ \E n \in 0 .. MaxParams :
           \E params \in [1 .. n -> {Param(kind, id) : kind \in ParamKinds, id \in ComponentIds}] :
               fsys = [params |-> params, access |-> AccessDefault,
                       initialized |-> FALSE, panicked |-> FALSE]

\* system.init(world)
FSystemInit ==
    /\ ~fsys.initialized
    /\ fsys' = [fsys EXCEPT !.initialized = TRUE,
                            !.access = ParamsInitChecked(AccessDefault, fsys.params).access,
                            !.panicked = ParamsInitChecked(AccessDefault, fsys.params).panicked]
    /\ UNCHANGED <<accs, evvars, tkvars, pvars>>

SpecSystemInit == FInit /\ [][FSystemInit]_vars

\* C18: Access::is_compatible(A, B) returns true exactly when no id written
\* by A is read by B and no id written by B is read by A, except that it
\* returns false whenever one side has read_all set and the other side
\* writes anything.
C18_CompatibleIffDisjoint ==
    accs.called =>
        (accs.ret <=>
            /\ ~(accs.a.read_all /\ accs.b.write # {})
            /\ ~(accs.b.read_all /\ accs.a.write # {})
            /\ accs.a.write \cap accs.b.read = {}
            /\ accs.b.write \cap accs.a.read = {})

\* C19: initialising a function system panics whenever two of its parameters
\* access the same component or resource id and at least one of them is a
\* write (Query<&mut T>, ResMut<T>), in either parameter order; it does not
\* panic when every access to each id is a read.
C19_InitPanicsOnConflict ==
    fsys.initialized =>
        (fsys.panicked <=>
            \E i, j \in 1 .. Len(fsys.params) :
                /\ i < j
                /\ fsys.params[i].id = fsys.params[j].id
                /\ fsys.params[i].kind # "Local" /\ fsys.params[j].kind # "Local"
                /\ \/ fsys.params[i].kind \in {"ResMut", "QueryMut"}
                   \/ fsys.params[j].kind \in {"ResMut", "QueryMut"})

\* init panicked on a write that follows a read of the same id, with a
\* parameter on another id between them
C19_Witness ==
    /\ fsys.initialized /\ fsys.panicked
    /\ fsys.params = <<Param("Res", "X"), Param("QueryMut", "Y"), Param("ResMut", "X")>>

\* C20: if the before/after labels of a stage's systems contain a dependency
\* cycle, including a system ordered before or after its own label, running
\* the stage panics before any system of the stage is run; if the labels are
\* acyclic, sorting does not panic.  (The labels contain a cycle exactly when
\* some non-empty set of systems has, for each member, a member declared
\* before it.)
C20_CyclePanicsBeforeRun ==
    \A s \in 1 .. Len(stages) :
        LET systems == StageSystems(stages[s])
            cyclic == \E S \in SUBSET (1 .. Len(systems)) :
                          /\ S # {}
                          /\ \A j \in S : \E i \in S : DeclaredBefore(systems[i], systems[j])
        IN  /\ cyclic => \A id \in StageIds(stages[s]) : hist.state[id] = "idle"
            /\ (sched.pc = "cycle" /\ sched.stage = s) => cyclic


(***************************************************************************)
(* Schedule: the stage map (its keys; HashMap::insert keeps one entry per  *)
(* key), the stage order, and the schedule's run criterion.  schedule.last *)
(* records the last call, the schedule before it and whether it panicked;  *)
(* a panic ends the calls.                                                 *)
(***************************************************************************)
StageLabels == {"First", "Last", "A", "B", "C"}

ScheduleEmpty == [stages |-> {}, stage_order |-> <<>>, run_criteria |-> "none"]
PushStageInternal(S, id) ==
    [S EXCEPT !.stages = @ \cup {id}, !.stage_order = Append(@, id)]
ScheduleNew == PushStageInternal(PushStageInternal(ScheduleEmpty, "First"), "Last")

\* TRUE when validate_add_stage panics
ValidateAddStageReservedOnly(S, id) == id = "First" \/ id = "Last"
ValidateAddStage(S, id) ==
    \/ id \in S.stages
    \/ id = "First" \/ id = "Last"

\* Vec::insert(index, element), index counted from 0
VecInsert(s, index, v) == SubSeq(s, 1, index) \o <<v>> \o SubSeq(s, index + 1, Len(s))
\* get_stage_index: Some(index) counted from 0, or None
GetStageIndex(S, id) ==
    IF Position(S.stage_order, id) = 0 THEN None ELSE Position(S.stage_order, id) - 1

AddStagePush(S, id) ==
    IF ValidateAddStage(S, id) THEN [panic |-> TRUE, schedule |-> S]
    ELSE [panic |-> FALSE,
          schedule |-> [S EXCEPT !.stages = @ \cup {id}, !.stage_order = Append(@, id)]]
AddStage(S, id) ==
    IF ValidateAddStage(S, id) THEN [panic |-> TRUE, schedule |-> S]
    ELSE [panic |-> FALSE,
          schedule |-> [S EXCEPT
              !.stages = @ \cup {id},
              !.stage_order = IF GetStageIndex(S, "Last") # None
                              THEN VecInsert(@, GetStageIndex(S, "Last"), id)
                              ELSE Append(@, id)]]

AddStageBefore(S, before, id) ==
    IF \/ ValidateAddStage(S, id)
       \/ before = "First"
       \/ GetStageIndex(S, before) = None      \* stage_index panics
    THEN [panic |-> TRUE, schedule |-> S]
    ELSE [panic |-> FALSE,
          schedule |-> [S EXCEPT
              !.stages = @ \cup {id},
              !.stage_order = VecInsert(@, GetStageIndex(S, before), id)]]

AddStageAfter(S, after, id) ==
    IF \/ ValidateAddStage(S, id)
       \/ after = "Last"
       \/ GetStageIndex(S, after) = None       \* stage_index panics
    THEN [panic |-> TRUE, schedule |-> S]
    ELSE [panic |-> FALSE,
          schedule |-> [S EXCEPT
              !.stages = @ \cup {id},
              !.stage_order = VecInsert(@, GetStageIndex(S, after) + 1, id)]]

\* RunCriteria::should_run of the schedule: Yes without a criterion, else
\* what the criterion system returns
ShouldRun(S, returned) == IF S.run_criteria = "none" THEN TRUE ELSE returned

\* the stages run_once calls Stage::run on, in call order
ScheduleRunOnceUnconditional(S, returned) == S.stage_order
ScheduleRunOnce(S, returned) ==
    IF ShouldRun(S, returned)
    THEN [i \in 1 .. Len(S.stage_order) |-> S.stage_order[i]]
    ELSE <<>>

Call(op, ref, label, panic, S) ==
    [op |-> op, ref |-> ref, label |-> label, panicked |-> panic, before |-> S,
     returned |-> FALSE, ran |-> <<>>]

\* Schedule::new() or Schedule::empty()
SchInit ==
    /\ AcPinned /\ accs = 0 /\ fsys = 0 /\ Rest("schedule")
    /\ \E made \in {"new", "empty"} :
           schedule = [made |-> made,
                       s |-> IF made = "new" THEN ScheduleNew ELSE ScheduleEmpty,
                       last |-> Call("none", "First", "First", FALSE, ScheduleEmpty)]

SchOthers == UNCHANGED <<once, qry, inv, fw, res, evvars, tkvars, acvars,
                         entities, overflow_checks, panicked, rpc, reserved, ret, track,
                         wvars, stages, sched, hist>>

SchAddStage(label) ==
    /\ ~schedule.last.panicked
    /\ LET r == AddStage(schedule.s, label)
       IN schedule' = [schedule EXCEPT
              !.s = r.schedule,
              !.last = Call("add_stage", label, label, r.panic, schedule.s)]
    /\ SchOthers

SchAddStageBefore(before, label) ==
    /\ ~schedule.last.panicked
    /\ LET r == AddStageBefore(schedule.s, before, label)
       IN schedule' = [schedule EXCEPT
              !.s = r.schedule,
              !.last = Call("add_stage_before", before, label, r.panic, schedule.s)]
    /\ SchOthers

SchAddStageAfter(after, label) ==
    /\ ~schedule.last.panicked
    /\ LET r == AddStageAfter(schedule.s, after, label)
       IN schedule' = [schedule EXCEPT
              !.s = r.schedule,
              !.last = Call("add_stage_after", after, label, r.panic, schedule.s)]
    /\ SchOthers

\* Schedule::set_run_criteria
SchSetRunCriteria ==
    /\ ~schedule.last.panicked
    /\ schedule.s.run_criteria = "none"
    /\ schedule' = [schedule EXCEPT
           !.s.run_criteria = "set",
           !.last = Call("set_run_criteria", "First", "First", FALSE, schedule.s)]
    /\ SchOthers

\* Schedule::run_once; the criterion system, if set, returns Yes or No
SchRunOnce ==
    /\ ~schedule.last.panicked
    /\ \E returned \in BOOLEAN :
           schedule' = [schedule EXCEPT
               !.last = [Call("run_once", "First", "First", FALSE, schedule.s) EXCEPT
                            !.returned = returned,
                            !.ran = ScheduleRunOnce(schedule.s, returned)]]
    /\ SchOthers

SchNext ==
    \/ \E label \in StageLabels : SchAddStage(label)
    \/ \E before \in StageLabels, label \in StageLabels : SchAddStageBefore(before, label)
    \/ \E after \in StageLabels, label \in StageLabels : SchAddStageAfter(after, label)
    \/ SchSetRunCriteria
    \/ SchRunOnce

SpecSchedule == SchInit /\ [][SchNext]_vars

\* C21: add_stage, add_stage_before and add_stage_after panic when the new
\* label already exists or is First or Last, when the `before` reference is
\* First, when the `after` reference is Last, or when the reference stage
\* does not exist; the stage map and the stage order are then as they were
\* before the call.
C21_AddStagePanics ==
    LET last == schedule.last
        misuse ==
            \/ last.label \in last.before.stages
            \/ last.label \in {"First", "Last"}
            \/ last.op = "add_stage_before" /\ last.ref = "First"
            \/ last.op = "add_stage_after" /\ last.ref = "Last"
            \/ /\ last.op \in {"add_stage_before", "add_stage_after"}
               /\ last.ref \notin last.before.stages
    IN  (last.op \in {"add_stage", "add_stage_before", "add_stage_after"} /\ misuse) =>
            /\ last.panicked
            /\ schedule.s.stages = last.before.stages
            /\ schedule.s.stage_order = last.before.stage_order

\* a stage added a second time to a schedule that holds three stages
C21_Witness ==
    /\ schedule.last.op = "add_stage_after"
    /\ schedule.last.ref = "First"
    /\ schedule.last.label = "A"
    /\ schedule.last.panicked
    /\ schedule.s.stage_order = <<"First", "A", "Last">>

\* C22: in a schedule created with Schedule::new, after any calls of
\* add_stage, add_stage_before and add_stage_after, First is the first and
\* Last the last entry of the stage order, every label occurs once in the
\* order, and the labels of the order are the keys of the stage map.
C22_OrderInvariant ==
    LET order == schedule.s.stage_order
    IN  schedule.made = "new" =>
            /\ Len(order) >= 2
            /\ order[1] = "First"
            /\ order[Len(order)] = "Last"
            /\ \A i, j \in 1 .. Len(order) : order[i] = order[j] => i = j
            /\ Range(order) = schedule.s.stages

\* all three calls have added a stage
C22_Witness ==
    /\ schedule.made = "new"
    /\ schedule.s.stage_order = <<"First", "B", "A", "C", "Last">>
    /\ schedule.last.op = "add_stage_before"
    /\ ~schedule.last.panicked

\* C24: run_once runs every stage once, in stage order, when the schedule's
\* criterion yields Yes or none is set, and runs no stage when it yields No.
C24_RunOnceStages ==
    schedule.last.op = "run_once" =>
        IF schedule.s.run_criteria = "none" \/ schedule.last.returned
        THEN schedule.last.ran = schedule.s.stage_order
        ELSE schedule.last.ran = <<>>

\* a criterion is set and yields No on a schedule of four stages
C24_Witness ==
    /\ schedule.last.op = "run_once"
    /\ schedule.s.run_criteria = "set"
    /\ ~schedule.last.returned
    /\ Len(schedule.s.stage_order) = 4
    /\ schedule.last.ran = <<>>


(***************************************************************************)
(* A stage with one system added with_run_criteria(ShouldRun::once), run   *)
(* repeatedly.  The criterion is a function system with a Local<bool>;     *)
(* once.log has one entry per finished stage run: the world it ran on and  *)
(* whether the system executed in it.                                      *)
(***************************************************************************)
MaxStageRuns == 5    \* Stage::run calls on the stage
NumWorlds == 2       \* worlds the stage may be run on

\* ShouldRun::once on the Local<bool> has_run: the result and the new Local
ShouldRunOnce(has_run) ==
    IF has_run THEN [out |-> FALSE, has_run |-> has_run]
    ELSE [out |-> TRUE, has_run |-> TRUE]

\* into_run_criteria: Some(system), not initialised, no world
IntoRunCriteria == [param_state |-> None, world_id |-> None]

\* System::init of the criterion: LocalState::init makes bool::default()
CriteriaInit(rc, world_id) == [rc EXCEPT !.param_state = FALSE]

\* RunCriteria::should_run(world): the result and the criterion afterwards
RunCriteriaShouldRunAlwaysInit(rc, world_id) ==
    LET ready == [CriteriaInit(rc, world_id) EXCEPT !.world_id = world_id]
        r == ShouldRunOnce(ready.param_state)
    IN  [out |-> r.out, criteria |-> [ready EXCEPT !.param_state = r.has_run]]
RunCriteriaShouldRun(rc, world_id) ==
    LET ready == IF rc.world_id = None \/ rc.world_id # world_id
                 THEN [CriteriaInit(rc, world_id) EXCEPT !.world_id = world_id]
                 ELSE rc
        r == ShouldRunOnce(ready.param_state)
    IN  [out |-> r.out, criteria |-> [ready EXCEPT !.param_state = r.has_run]]

NewOthers == UNCHANGED <<evvars, tkvars, acvars,
                         entities, overflow_checks, panicked, rpc, reserved, ret, track,
                         wvars, stages, sched, hist>>

\* the stage after add_system: RunCriteriaContainer::new starts at Yes
OnceInit ==
    /\ AcPinned /\ accs = 0 /\ fsys = 0 /\ Rest("once")
    /\ once = [criteria |-> IntoRunCriteria, should_run |-> TRUE, pc |-> "idle",
               world |-> 1, log |-> <<>>]

\* Stage::run(world) up to and with container.run_criteria_mut().run(world)
OnceCriteria(world_id) ==
    /\ once.pc = "idle" /\ Len(once.log) < MaxStageRuns
    /\ LET r == RunCriteriaShouldRun(once.criteria, world_id)
       IN once' = [once EXCEPT !.criteria = r.criteria, !.should_run = r.out,
                               !.pc = "execute", !.world = world_id]
    /\ UNCHANGED <<schedule, qry, inv, fw, res>>
    /\ NewOthers

\* the executor's `if system.should_run() { run }`, and Stage::run returns
OnceExecute ==
    /\ once.pc = "execute"
    /\ once' = [once EXCEPT
           !.pc = "idle",
           !.log = Append(@, [world |-> once.world, executed |-> once.should_run])]
    /\ UNCHANGED <<schedule, qry, inv, fw, res>>
    /\ NewOthers

OnceNext ==
    \/ \E world_id \in 1 .. NumWorlds : OnceCriteria(world_id)
    \/ OnceExecute

SpecOnce == OnceInit /\ [][OnceNext]_vars

\* C23: a system under the criterion ShouldRun::once, in a stage run N >= 1
\* times on the same world, executes in the first stage run and in no later
\* one.
C23_OnceRunsOnce ==
    (/\ Len(once.log) >= 1
     /\ \A i \in 1 .. Len(once.log) : once.log[i].world = once.log[1].world) =>
        /\ once.log[1].executed
        /\ \A i \in 2 .. Len(once.log) : ~once.log[i].executed

\* three runs on one world, the system executed in the first only
C23_Witness ==
    /\ Len(once.log) = 3
    /\ \A i \in 1 .. 3 : once.log[i].world = 2
    /\ once.log[1].executed /\ ~once.log[2].executed /\ ~once.log[3].executed


(***************************************************************************)
(* Queries over the world of SpecWorld.  An EntityIdSet is a FixedBitSet:  *)
(* a sequence of bits with a length; bit i is stored at position i + 1.    *)
(* A QueryState is its FilteredAccess: the ids in `with` (from &T and      *)
(* With<T>) and in `without` (from Without<T>).                            *)
(***************************************************************************)
ComponentOrder == <<"A", "B">>     \* the component ids in ascending order

\* FixedBitSet::from_iter: grows to the largest index + 1
BitsCollect(indices) ==
    LET len == IF indices = {} THEN 0
               ELSE 1 + CHOOSE m \in indices : \A n \in indices : m >= n
    IN  [i \in 1 .. len |-> (i - 1) \in indices]
\* FixedBitSet::intersect_with and difference_with keep the length of self
BitsUnionWith(a, b) == [i \in 1 .. Len(a) |-> a[i] \/ (i <= Len(b) /\ b[i])]
BitsIntersectWith(a, b) == [i \in 1 .. Len(a) |-> a[i] /\ i <= Len(b) /\ b[i]]
BitsDifferenceWith(a, b) == [i \in 1 .. Len(a) |-> a[i] /\ ~(i <= Len(b) /\ b[i])]

\* DenseStorage::entity_ids: the indices with an entry in the sparse array
EntityIds(storage) ==
    BitsCollect({i \in 0 .. (Len(storage.sparse) - 1) : SparseContains(storage.sparse, i)})

\* the ids of a FixedBitSet of component ids, in ascending order (ones())
RECURSIVE Ones(_, _)
Ones(ids, order) ==
    IF order = <<>> THEN <<>>
    ELSE (IF Head(order) \in ids THEN <<Head(order)>> ELSE <<>>) \o Ones(ids, Tail(order))

RECURSIVE IntersectAll(_, _, _)
IntersectAll(entity_ids, ids, w) ==
    IF ids = <<>> THEN entity_ids
    ELSE IntersectAll(BitsIntersectWith(entity_ids, EntityIds(w.storage[Head(ids)])),
                      Tail(ids), w)
RECURSIVE DifferenceAll(_, _, _)
DifferenceAll(entity_ids, ids, w) ==
    IF ids = <<>> THEN entity_ids
    ELSE DifferenceAll(BitsDifferenceWith(entity_ids, EntityIds(w.storage[Head(ids)])),
                       Tail(ids), w)

\* QueryState::get_entities
GetEntities(q, w) ==
    LET with == Ones(q.with, ComponentOrder)
        first == IF with # <<>> THEN EntityIds(w.storage[Head(with)])
                 ELSE w.entities.entity_id_set
        rest == IF with # <<>> THEN Tail(with) ELSE <<>>
    IN  DifferenceAll(IntersectAll(first, rest, w), Ones(q.without, ComponentOrder), w)

\* F::filter_fetch of the With<T> and Without<T> filters of the query
FilterFetch(q, w, entity) ==
    /\ \A c \in q.with : DenseContains(w.storage[c], entity)
    /\ \A c \in q.without : ~DenseContains(w.storage[c], entity)

\* Entities::get_unchecked
EntitiesGetUnchecked(E, index) == Entity(index, E.meta[index + 1].generation)

\* QueryIterationCursor::next called until it returns None: the entities of
\* the items, in the order they are yielded
RECURSIVE CursorStuck(_, _, _, _)
CursorStuck(entity_ids, current_index, q, w) ==
    IF current_index >= Len(entity_ids) THEN <<>>
    ELSE IF /\ IdSetContains(entity_ids, current_index)
            /\ FilterFetch(q, w, EntitiesGetUnchecked(w.entities, current_index))
         THEN <<EntitiesGetUnchecked(w.entities, current_index),
                EntitiesGetUnchecked(w.entities, current_index)>>
              \o CursorStuck(entity_ids, current_index + 1, q, w)
         ELSE CursorStuck(entity_ids, current_index + 1, q, w)
RECURSIVE CursorNext(_, _, _, _)
CursorNext(entity_ids, current_index, q, w) ==
    IF current_index >= Len(entity_ids) THEN <<>>
    ELSE IF /\ IdSetContains(entity_ids, current_index)
            /\ FilterFetch(q, w, EntitiesGetUnchecked(w.entities, current_index))
         THEN <<EntitiesGetUnchecked(w.entities, current_index)>>
              \o CursorNext(entity_ids, current_index + 1, q, w)
         ELSE CursorNext(entity_ids, current_index + 1, q, w)

\* Query<Entity>, Query<&A>, Query<(&A, &B)>, Query<&A, Without<B>>,
\* Query<Entity, Without<B>>, Query<&B, Without<B>>
Queries ==
    {[with |-> {}, without |-> {}], [with |-> {"A"}, without |-> {}],
     [with |-> {"A", "B"}, without |-> {}], [with |-> {"A"}, without |-> {"B"}],
     [with |-> {}, without |-> {"B"}], [with |-> {"B"}, without |-> {"B"}]}

\* World::new
QInit ==
    /\ entities = EntitiesDefault
    /\ overflow_checks = FALSE
    /\ panicked = FALSE
    /\ rpc = [t \in Threads |-> Idle]
    /\ reserved = <<>>
    /\ ret = NoRet
    /\ track = NoTrack
    /\ world = WorldDefault /\ phase = "world"
    /\ queues = NoQueues /\ spawned = NoQueues /\ steps = 0
    /\ stages = <<>> /\ sched = 0 /\ hist = 0
    /\ events = 0 /\ readers = 0 /\ seen = 0
    /\ tworld = 0 /\ tsys = 0 /\ tmon = 0
    /\ accs = 0 /\ fsys = 0
    /\ Rest("qry")
    /\ qry = [called |-> FALSE, with |-> {}, without |-> {}, entities |-> <<>>,
              yielded |-> <<>>]

\* world.query_filtered::<Q, F>() and query.iter(&world) consumed to its end
QIter(with, without) ==
    /\ ~panicked /\ phase = "world"
    /\ LET q == [with |-> with, without |-> without]
       IN qry' = [called |-> TRUE, with |-> with, without |-> without,
                  entities |-> GetEntities(q, world),
                  yielded |-> CursorNext(GetEntities(q, world), 0, q, world)]
    /\ phase' = "queried"
    /\ UNCHANGED <<schedule, once, inv, fw, res, world, queues, spawned, steps>>
    /\ UNCHANGED <<evvars, tkvars, acvars, entities, overflow_checks, panicked, rpc,
                   reserved, ret, track, stages, sched, hist>>

QNext ==
    \/ WSpawn
    \/ \E e \in WorldHandles : WDespawn(e)
    \/ \E e \in WorldHandles : WGetOrSpawn(e)
    \/ \E e \in WorldHandles, c \in Components, value \in Values : WInsert(e, c, value)
    \/ \E e \in WorldHandles, c \in Components : WRemove(e, c)
    \/ \E q \in Queries : QIter(q.with, q.without)

SpecQuery == QInit /\ [][QNext]_vars

\* the entity index is live and its entity holds a value of component c
Holds(w, index, c) ==
    /\ index < Len(w.entities.meta)
    /\ ~w.entities.meta[index + 1].is_empty
    /\ EntityGet(w, EntitiesGetUnchecked(w.entities, index), c) # None
Live(w, index) == index < Len(w.entities.meta) /\ ~w.entities.meta[index + 1].is_empty
Candidates == {i \in 0 .. (Len(qry.entities) - 1) : IdSetContains(qry.entities, i)}

\* C25: QueryState::iter yields exactly the entities of the candidate set
\* that pass the filter, each once, in strictly ascending entity-index
\* order.
C25_IterAscendingOnce ==
    qry.called =>
        /\ \A i \in 1 .. Len(qry.yielded) - 1 :
               qry.yielded[i].index < qry.yielded[i + 1].index
        /\ {qry.yielded[i].index : i \in 1 .. Len(qry.yielded)} =
               {i \in Candidates : FilterFetch(qry, world, EntitiesGetUnchecked(world.entities, i))}
        /\ \A i \in 1 .. Len(qry.yielded) :
               qry.yielded[i] = EntitiesGetUnchecked(world.entities, qry.yielded[i].index)

\* both entities hold an A and are yielded, index 0 first
C25_Witness ==
    /\ qry.called /\ qry.with = {"A"} /\ qry.without = {"B"}
    /\ Len(qry.yielded) = 2
    /\ qry.yielded[1].index = 0 /\ qry.yielded[2].index = 1

\* C26: get_entities returns exactly the entity indices that hold every
\* component of the with set and none of the without set; with an empty
\* with set it starts from the set of all live entity indices.
C26_GetEntitiesExact ==
    qry.called =>
        Candidates =
            {i \in 0 .. (MaxEntities - 1) :
                /\ Live(world, i)
                /\ \A c \in qry.with : Holds(world, i, c)
                /\ \A c \in qry.without : ~Holds(world, i, c)}

\* of two live entities with an A, one holds a B and is left out
C26_Witness ==
    /\ qry.called /\ qry.with = {"A"} /\ qry.without = {"B"}
    /\ Live(world, 0) /\ Live(world, 1)
    /\ Holds(world, 0, "A") /\ Holds(world, 0, "B") /\ Holds(world, 1, "A")
    /\ Candidates = {1}


(***************************************************************************)
(* One run of a parallel SystemStage seen from the world: every system     *)
(* invocation and the change tick it takes, the commands the systems push  *)
(* onto their queues, and the order apply_buffers applies them in.  A      *)
(* command is the number of its push; inv.log lists the applied commands   *)
(* and inv.calls the invocations, both in the order they happened.         *)
(***************************************************************************)
NumRunSystems == 3   \* systems added to the stage
MaxPushes == 3       \* commands pushed by all systems of the stage together

RunDescriptors ==
    { SystemDescriptor(IntoSystem("function", <<Param("Commands", "")>>), {"L1"}, {}, {}),
      SystemDescriptor(IntoSystem("function", <<Param("Commands", "")>>), {"L2"}, {}, {"L1"}),
      SystemDescriptor(IntoSystem("function", <<Param("Commands", "")>>), {}, {"L1"}, {}),
      SystemDescriptor(IntoSystem("exclusive", <<Param("Local", "")>>), {}, {}, {}) }

\* World::increment_change_tick: fetch_add(1) returns the previous value
IncrementChangeTick(change_tick) == [ret |-> change_tick, change_tick |-> change_tick + 1]

\* the order in which queue.drain(..) hands the commands to Command::apply
DrainLifo(queue) == [i \in 1 .. Len(queue) |-> queue[Len(queue) + 1 - i]]
DrainOrder(queue) == queue

\* the stage after its systems were added, initialised and sorted
RInit ==
    /\ AcPinned /\ accs = 0 /\ fsys = 0 /\ Rest("inv")
    /\ \E descriptors \in [1 .. NumRunSystems -> RunDescriptors] :
           LET init == InitializeSystems(
                           WithSystems(SystemStageNew(ExecutorNew("parallel")), descriptors, 1))
           IN \E p \in RebuildDependencyGraph(init.parallel_systems),
                 x \in RebuildDependencyGraph(init.exclusive_systems) :
                  /\ ~p.panic /\ ~x.panic
                  /\ inv = [parallel_systems |-> p.systems,
                            exclusive_systems |-> x.systems,
                            task |-> [id \in 1 .. NumRunSystems |-> "idle"],
                            queue |-> [id \in 1 .. NumRunSystems |-> <<>>],
                            pushed |-> 0, pc |-> "run_systems", index |-> 1,
                            log |-> <<>>, change_tick |-> 1, calls |-> <<>>]

RunOthers == UNCHANGED <<schedule, once, qry, fw, res>>

\* the executor lets a system start once its dependencies have finished;
\* FunctionSystem::run begins with world.increment_change_tick()
RStart(k) ==
    /\ inv.pc = "run_systems" /\ k <= Len(inv.parallel_systems)
    /\ LET container == inv.parallel_systems[k]
           r == IncrementChangeTick(inv.change_tick)
       IN /\ inv.task[container.id] = "idle"
          /\ \A d \in container.dependencies :
                 inv.task[inv.parallel_systems[d].id] = "finished"
          /\ inv' = [inv EXCEPT
                 !.task[container.id] = "running",
                 !.change_tick = r.change_tick,
                 !.calls = Append(@, [id |-> container.id, increments |-> 1,
                                      change_tick |-> r.ret])]
    /\ RunOthers /\ NewOthers

\* Commands::add_command in a running system
RPush(id) ==
    /\ inv.pc = "run_systems" /\ inv.task[id] = "running" /\ inv.pushed < MaxPushes
    /\ inv' = [inv EXCEPT !.queue[id] = Append(@, inv.pushed), !.pushed = @ + 1]
    /\ RunOthers /\ NewOthers

\* the system function returns
RFinish(id) ==
    /\ inv.pc = "run_systems" /\ inv.task[id] = "running"
    /\ inv' = [inv EXCEPT !.task[id] = "finished"]
    /\ RunOthers /\ NewOthers

\* run_systems returns: every spawned task of the scope has completed
RJoin ==
    /\ inv.pc = "run_systems"
    /\ \A k \in 1 .. Len(inv.parallel_systems) :
           inv.task[inv.parallel_systems[k].id] = "finished"
    /\ inv' = [inv EXCEPT !.pc = "apply_buffers", !.index = 1]
    /\ RunOthers /\ NewOthers

\* apply_buffers: system.apply(world) of the next container, which drains
\* its CommandQueue into the world
RApply ==
    /\ inv.pc = "apply_buffers" /\ inv.index <= Len(inv.parallel_systems)
    /\ LET id == inv.parallel_systems[inv.index].id
           drained == DrainOrder(inv.queue[id])
       IN inv' = [inv EXCEPT
              !.queue[id] = <<>>,
              !.log = @ \o [i \in 1 .. Len(drained) |-> [system |-> id, cmd |-> drained[i]]],
              !.index = @ + 1]
    /\ RunOthers /\ NewOthers

RApplyReturn ==
    /\ inv.pc = "apply_buffers" /\ inv.index > Len(inv.parallel_systems)
    /\ inv' = [inv EXCEPT !.pc = "exclusive", !.index = 1]
    /\ RunOthers /\ NewOthers

\* the next exclusive system: ExclusiveFunctionSystem::run, then apply;
\* neither touches the change tick
RExclusive ==
    /\ inv.pc = "exclusive" /\ inv.index <= Len(inv.exclusive_systems)
    /\ LET id == inv.exclusive_systems[inv.index].id
       IN inv' = [inv EXCEPT
              !.task[id] = "finished",
              !.index = @ + 1,
              !.calls = Append(@, [id |-> id, increments |-> 0,
                                   change_tick |-> inv.change_tick])]
    /\ RunOthers /\ NewOthers

RReturn ==
    /\ inv.pc = "exclusive" /\ inv.index > Len(inv.exclusive_systems)
    /\ inv' = [inv EXCEPT !.pc = "done"]
    /\ RunOthers /\ NewOthers

RNext ==
    \/ \E k \in 1 .. NumRunSystems : RStart(k)
    \/ \E id \in 1 .. NumRunSystems : RPush(id)
    \/ \E id \in 1 .. NumRunSystems : RFinish(id)
    \/ RJoin
    \/ RApply
    \/ RApplyReturn
    \/ RExclusive
    \/ RReturn

SpecRun == RInit /\ [][RNext]_vars

ParallelPosition(id) ==
    CHOOSE k \in 1 .. Len(inv.parallel_systems) : inv.parallel_systems[k].id = id

\* C27: commands are applied in FIFO order within one system's queue and,
\* across the systems of a stage, in the stage's sorted (topological)
\* system order, and only after all parallel systems of the stage have
\* finished.
C27_CommandsFifoSorted ==
    /\ inv.log # <<>> =>
           \A k \in 1 .. Len(inv.parallel_systems) :
               inv.task[inv.parallel_systems[k].id] = "finished"
    /\ \A i, j \in 1 .. Len(inv.log) :
           i < j =>
               /\ inv.log[i].system = inv.log[j].system => inv.log[i].cmd < inv.log[j].cmd
               /\ ParallelPosition(inv.log[i].system) <= ParallelPosition(inv.log[j].system)
               /\ ~DeclaredBefore(inv.parallel_systems[ParallelPosition(inv.log[j].system)],
                                  inv.parallel_systems[ParallelPosition(inv.log[i].system)])
    /\ inv.pc \in {"exclusive", "done"} =>
           {inv.log[i].cmd : i \in 1 .. Len(inv.log)} = 0 .. (inv.pushed - 1)

\* two commands of the first system in the sorted list are applied before a
\* command that a later system pushed between them
C27_Witness ==
    /\ inv.pc = "done"
    /\ Len(inv.log) = 3
    /\ inv.log[1].cmd = 0 /\ inv.log[2].cmd = 2 /\ inv.log[3].cmd = 1
    /\ inv.log[1].system = inv.log[2].system
    /\ inv.log[3].system # inv.log[1].system

\* C28: every system invocation of a run, of exclusive systems and of
\* systems running concurrently too, increments the world change tick
\* once, so the counter strictly increases and no two invocations obtain
\* the same change tick.
C28_OneTickPerInvocation ==
    /\ \A i \in 1 .. Len(inv.calls) : inv.calls[i].increments = 1
    /\ \A i, j \in 1 .. Len(inv.calls) :
           i < j => inv.calls[i].change_tick < inv.calls[j].change_tick
    /\ inv.change_tick = 1 + Len(inv.calls)


(***************************************************************************)
(* A FunctionSystem used on several worlds.  The system keeps the tick of  *)
(* its last run in meta.last_change_tick and, per world index, in          *)
(* last_change_ticks; init stores the one and loads the other.  fw.worlds  *)
(* holds each world's change tick, fw.last_run the tick of the system's    *)
(* last run on each world, fw.trace the calls made so far.                 *)
(***************************************************************************)
MaxFnSteps == 7   \* calls made on the system and the worlds together

\* WorldId::new numbers the worlds from 0
Worlds == 0 .. (NumWorlds - 1)

\* store under the world that is being initialised instead of the old one
StoreUnderNewWorld(sys, world_id) ==
    [sys EXCEPT !.last_change_ticks = SparseInsert(@, world_id, sys.last_change_tick)]
StoreLastChangeTick(sys, world_id) ==
    IF sys.world_id # None
    THEN [sys EXCEPT !.last_change_ticks = SparseInsert(@, sys.world_id, sys.last_change_tick)]
    ELSE sys

GetLastChangeTick(sys, world_id, change_tick) ==
    IF SparseGet(sys.last_change_ticks, world_id) # None
    THEN SparseGet(sys.last_change_ticks, world_id)
    ELSE WrappingSub(change_tick, MAX_CHANGE_AGE)

\* FunctionSystem::new
FunctionSystemNew ==
    [world_id |-> None, last_change_tick |-> 0, param_state |-> None,
     last_change_ticks |-> <<>>]

\* FunctionSystem::init(world)
FunctionSystemInitOn(sys, world_id, change_tick) ==
    LET stored == StoreLastChangeTick(sys, world_id)
    IN [stored EXCEPT
           !.last_change_tick = GetLastChangeTick(stored, world_id, change_tick),
           !.param_state = world_id,
           !.world_id = world_id]

\* FunctionSystem::run(world) with the tick that increment_change_tick returned
FunctionSystemRun(sys, change_tick) == [sys EXCEPT !.last_change_tick = change_tick]

FwInit ==
    /\ AcPinned /\ accs = 0 /\ fsys = 0 /\ Rest("fw")
    /\ fw = [sys |-> FunctionSystemNew,
             worlds |-> [w \in Worlds |-> 1],
             last_run |-> [w \in Worlds |-> None],
             read |-> [state |-> None, world |-> None],
             trace |-> <<>>]

FwOthers == UNCHANGED <<schedule, once, qry, inv, res>>

FwSystemInit(w) ==
    /\ Len(fw.trace) < MaxFnSteps
    /\ fw' = [fw EXCEPT
           !.sys = FunctionSystemInitOn(@, w, fw.worlds[w]),
           !.trace = Append(@, [op |-> "init", world |-> w])]
    /\ FwOthers /\ NewOthers

\* the caller runs the system on the world it was initialised on
FwSystemRun(w) ==
    /\ Len(fw.trace) < MaxFnSteps
    /\ fw.sys.world_id = w
    /\ LET change_tick == fw.worlds[w]
       IN fw' = [fw EXCEPT
              !.worlds[w] = (change_tick + 1) % TickModulus,
              !.sys = FunctionSystemRun(@, change_tick),
              !.last_run[w] = change_tick,
              !.read = [state |-> fw.sys.param_state, world |-> w],
              !.trace = Append(@, [op |-> "run", world |-> w])]
    /\ FwOthers /\ NewOthers

\* another system runs on the world and takes a change tick
FwOtherSystemRun(w) ==
    /\ Len(fw.trace) < MaxFnSteps
    /\ fw' = [fw EXCEPT
           !.worlds[w] = (@ + 1) % TickModulus,
           !.trace = Append(@, [op |-> "other", world |-> w])]
    /\ FwOthers /\ NewOthers

FwNext ==
    \/ \E w \in Worlds : FwSystemInit(w)
    \/ \E w \in Worlds : FwSystemRun(w)
    \/ \E w \in Worlds : FwOtherSystemRun(w)

SpecFn == FwInit /\ [][FwNext]_vars

\* C29: a function system keeps one last_change_tick per world: once it
\* has been initialised on a world again, after runs on that world and
\* inits and runs on another, its last_change_tick is the change tick of
\* its last run on that world, and its parameters read that world.
C29_TickPerWorld ==
    /\ \A w \in Worlds :
           (fw.sys.world_id = w /\ fw.last_run[w] # None) =>
               /\ fw.sys.last_change_tick = fw.last_run[w]
               /\ fw.sys.param_state = w
    /\ fw.read.state = fw.read.world

\* init A, run, (another system runs on B), init B, run, init A
C29_Witness ==
    /\ Len(fw.trace) >= 5
    /\ LET n == Len(fw.trace)
           calls == SelectSeq(fw.trace, LAMBDA c : c.op # "other")
       IN /\ Len(calls) = 5
          /\ calls[1] = [op |-> "init", world |-> 0]
          /\ calls[2] = [op |-> "run", world |-> 0]
          /\ calls[3] = [op |-> "init", world |-> 1]
          /\ calls[4] = [op |-> "run", world |-> 1]
          /\ calls[5] = [op |-> "init", world |-> 0]
          /\ fw.trace[n] = calls[5]
    /\ fw.last_run[0] # fw.last_run[1]
    /\ fw.sys.last_change_tick = fw.last_run[0]


(***************************************************************************)
(* The resources of a world.  Components and resources take their ids      *)
(* from one counter (the length of Components::components); a resource is  *)
(* stored in the SparseArray of Resources under the index of its id.       *)
(* res.last describes the last call: its type, its argument, what the      *)
(* world held for every type before it, and what it returned.              *)
(***************************************************************************)
ResourceTypes == {"R", "S"}
ResourceValues == {0, 1}     \* 0 is what FromWorld (Default) builds
MaxResTick == 3              \* the world's change tick stays below this
MaxComponentIds == 3         \* ids handed out to components and resources

\* Option<ResourceData> as a sequence of at most one element
Nothing == <<>>
Some(x) == <<x>>

\* Resources::contains, get, insert and remove on SparseArray<ResourceData>
ResourcesContains(resources, index) == index < Len(resources) /\ resources[index + 1] # Nothing
ResourcesGet(resources, index) ==
    IF index < Len(resources) THEN resources[index + 1] ELSE Nothing
ResourcesInsert(resources, index, resource, change_tick) ==
    SeqSet(Resize(resources, IF index >= Len(resources) THEN index + 1 ELSE Len(resources),
                  Nothing),
           index + 1, Some([data |-> resource, change_ticks |-> ChangeTicksNew(change_tick)]))
ResourcesRemove(resources, index) ==
    IF index < Len(resources) THEN SeqSet(resources, index + 1, Nothing) ELSE resources

\* Components::init_resource
ComponentsInitResource(r, type) ==
    IF r.resource_indices[type] # None THEN r
    ELSE [r EXCEPT !.resource_indices[type] = r.components, !.components = @ + 1]

\* World::contains_resource
ContainsResource(r, type) ==
    IF r.resource_indices[type] # None
    THEN ResourcesContains(r.resources, r.resource_indices[type])
    ELSE FALSE

\* World::insert_resource
WorldInsertResource(r, type, resource) ==
    LET c == ComponentsInitResource(r, type)
    IN [c EXCEPT !.resources =
            ResourcesInsert(@, c.resource_indices[type], resource, r.change_tick)]

\* init_resource without the test for an existing instance
WorldInitResourceAlways(r, type) == WorldInsertResource(r, type, 0)
WorldInitResource(r, type) ==
    IF ~ContainsResource(r, type) THEN WorldInsertResource(r, type, 0) ELSE r

\* World::remove_resource: the world afterwards and the returned value
WorldRemoveResource(r, type) ==
    LET c == ComponentsInitResource(r, type)
        index == c.resource_indices[type]
    IN IF ResourcesGet(c.resources, index) = Nothing
       THEN [world |-> c, ret |-> Nothing]
       ELSE [world |-> [c EXCEPT !.resources = ResourcesRemove(@, index)],
             ret |-> Some(ResourcesGet(c.resources, index)[1].data)]

\* what the world holds for a resource type: its data and ticks, or nothing
ResourceOf(r, type) ==
    IF r.resource_indices[type] = None THEN Nothing
    ELSE ResourcesGet(r.resources, r.resource_indices[type])
Held(r) == [type \in ResourceTypes |-> ResourceOf(r, type)]

ResInit ==
    /\ AcPinned /\ accs = 0 /\ fsys = 0 /\ Rest("res")
    /\ res = [world |-> [components |-> 0,
                         resource_indices |-> [type \in ResourceTypes |-> None],
                         resources |-> <<>>, change_tick |-> 1],
              last |-> [op |-> "new", type |-> "", arg |-> None,
                        before |-> [type \in ResourceTypes |-> Nothing], ret |-> Nothing]]

ResOthers == UNCHANGED <<schedule, once, qry, inv, fw>>

ResInsertResource(type, resource) ==
    /\ res' = [world |-> WorldInsertResource(res.world, type, resource),
               last |-> [op |-> "insert_resource", type |-> type, arg |-> resource,
                         before |-> Held(res.world), ret |-> Nothing]]
    /\ ResOthers /\ NewOthers

ResInitResource(type) ==
    /\ res' = [world |-> WorldInitResource(res.world, type),
               last |-> [op |-> "init_resource", type |-> type, arg |-> None,
                         before |-> Held(res.world), ret |-> Nothing]]
    /\ ResOthers /\ NewOthers

ResRemoveResource(type) ==
    /\ LET r == WorldRemoveResource(res.world, type)
       IN res' = [world |-> r.world,
                  last |-> [op |-> "remove_resource", type |-> type, arg |-> None,
                            before |-> Held(res.world), ret |-> r.ret]]
    /\ ResOthers /\ NewOthers

\* Components::init_component takes the next id for a component type
ResInitComponent ==
    /\ res.world.components < MaxComponentIds
    /\ \E type \in ResourceTypes : res.world.resource_indices[type] = None
    /\ res' = [world |-> [res.world EXCEPT !.components = @ + 1],
               last |-> [op |-> "init_component", type |-> "", arg |-> None,
                         before |-> Held(res.world), ret |-> Nothing]]
    /\ ResOthers /\ NewOthers

\* a system invocation takes a change tick
ResIncrementChangeTick ==
    /\ res.world.change_tick < MaxResTick
    /\ res' = [world |-> [res.world EXCEPT
                              !.change_tick = IncrementChangeTick(@).change_tick],
               last |-> [op |-> "increment_change_tick", type |-> "", arg |-> None,
                         before |-> Held(res.world), ret |-> Nothing]]
    /\ ResOthers /\ NewOthers

ResNext ==
    \/ \E type \in ResourceTypes, resource \in ResourceValues : ResInsertResource(type, resource)
    \/ \E type \in ResourceTypes : ResInitResource(type)
    \/ \E type \in ResourceTypes : ResRemoveResource(type)
    \/ ResInitComponent
    \/ ResIncrementChangeTick

SpecRes == ResInit /\ [][ResNext]_vars

\* C30: a world holds zero or one instance of each resource type:
\* insert_resource replaces an existing instance, init_resource leaves an
\* existing instance (value and change ticks) unchanged and inserts only
\* when none is present, and after remove_resource returns Some the
\* resource is absent.
C30_ResourceSingleton ==
    LET now == Held(res.world)
        last == res.last
        fresh(value) == <<[data |-> value,
                           change_ticks |-> [added |-> res.world.change_tick,
                                             changed |-> res.world.change_tick]]>>
    IN /\ \A t1, t2 \in ResourceTypes :
              (t1 # t2 /\ res.world.resource_indices[t1] # None) =>
                  res.world.resource_indices[t1] # res.world.resource_indices[t2]
       /\ Cardinality({i \in 1 .. Len(res.world.resources) : res.world.resources[i] # <<>>})
              = Cardinality({type \in ResourceTypes : now[type] # <<>>})
       /\ \A type \in ResourceTypes : type # last.type => now[type] = last.before[type]
       /\ last.op = "insert_resource" => now[last.type] = fresh(last.arg)
       /\ last.op = "init_resource" =>
              now[last.type] = IF last.before[last.type] # <<>>
                               THEN last.before[last.type] ELSE fresh(0)
       /\ last.op = "remove_resource" =>
              /\ now[last.type] = <<>>
              /\ last.ret = IF last.before[last.type] = <<>> THEN <<>>
                            ELSE <<last.before[last.type][1].data>>

\* init_resource on a type whose instance was inserted at an earlier tick
\* with a value other than the default, while the other type is held too
C30_Witness ==
    /\ res.last.op = "init_resource"
    /\ res.last.before[res.last.type] # <<>>
    /\ res.last.before[res.last.type][1].data = 1
    /\ res.last.before[res.last.type][1].change_ticks.added < res.world.change_tick
    /\ \A type \in ResourceTypes : Held(res.world)[type] # <<>>
    /\ res.world.resource_indices["R"] > res.world.resource_indices["S"] + 1


(***************************************************************************)
(* The same stage run over plain function systems: a writer of X without   *)
(* labels, a system labelled L1 that touches nothing, a reader of X that   *)
(* runs after L1, and an exclusive system.                                 *)
(***************************************************************************)
PlainDescriptors ==
    { SystemDescriptor(IntoSystem("function", <<Param("ResMut", "X")>>), {}, {}, {}),
      SystemDescriptor(IntoSystem("function", <<Param("Local", "")>>), {"L1"}, {}, {}),
      SystemDescriptor(IntoSystem("function", <<Param("Res", "X")>>), {}, {}, {"L1"}),
      SystemDescriptor(IntoSystem("exclusive", <<Param("Local", "")>>), {}, {}, {}) }

PlainInit ==
    /\ entities = EntitiesDefault
    /\ overflow_checks \in BOOLEAN
    /\ panicked = FALSE
    /\ rpc = [t \in Threads |-> Idle]
    /\ reserved = <<>>
    /\ ret = NoRet
    /\ track = NoTrack
    /\ world = 0 /\ phase = "schedule" /\ queues = <<>> /\ spawned = <<>> /\ steps = 0
    /\ \E kind \in {"sequential", "parallel"},
          descriptors \in [1 .. NumStageSystems -> PlainDescriptors] :
           stages = << WithSystems(SystemStageNew(ExecutorNew(kind)), descriptors, 1),
                       WithSystems(SystemStageNew(ExecutorNew(kind)), <<LastDescriptor>>,
                                   NumStageSystems + 1) >>
    /\ sched = [pc |-> "idle", stage |-> 1, runs |-> 0, index |-> 1, tasks |-> NoTasks]
    /\ hist = NoHist
    /\ AuxIdle

SpecPlainStage == PlainInit /\ [][SNext]_vars

(***************************************************************************)
(* Properties of the parallel executor and of the dependency sort.         *)
(***************************************************************************)
\* C31: in a parallel stage run, if two systems have incompatible access and
\* both run, the one that comes earlier in the stage's sorted system order
\* runs first: no system starts after a conflicting system that stands
\* behind it in the sorted list has started.
C31_ConflictsFollowSortedOrder ==
    \A pair \in hist.overtaken : hist.state[pair[1]] = "idle"

\* C32: in a parallel stage run every system whose run criterion said Yes is
\* started and run once and the stage run terminates, whatever the
\* dependencies, accesses and criteria of the other systems: the executor
\* does not panic, no spawned task is left waiting for a start event once
\* the executor's loop has ended, and when run_systems has returned every
\* such system has finished.
C32_EveryYesSystemRuns ==
    LET systems == CurrentStage.parallel_systems
    IN CurrentStage.executor.kind = "parallel" =>
           /\ sched.pc # "panicked"
           /\ sched.pc = "join" => \A i \in DOMAIN sched.tasks : sched.tasks[i] # "waiting"
           /\ sched.pc \in {"apply", "exclusive"} =>
                  \A i \in 1 .. Len(systems) :
                      systems[i].should_run => hist.state[systems[i].id] = "finished"

\* the dependencies of a container are positions of the list it is in
SortedList(old, new) ==
    /\ Len(new) = Len(old)
    /\ \A k \in 1 .. Len(old) :
           Cardinality({j \in 1 .. Len(new) :
               [new[j] EXCEPT !.dependencies = {}] = [old[k] EXCEPT !.dependencies = {}]}) = 1
    /\ \A k \in 1 .. Len(new) :
           /\ new[k].dependencies = {j \in 1 .. Len(new) : DeclaredBefore(new[j], new[k])}
           /\ \A d \in new[k].dependencies : d < k

\* C33: when the labels are acyclic, rebuild_dependency_graph leaves a list
\* with a permutation of the same systems (none lost, none duplicated) in
\* which every system stands after all systems it depends on, and each
\* system's dependency list holds exactly the new positions of those.
C33_SortIsTopologicalPermutation ==
    [][\A s \in 1 .. Len(stages) :
           (stages[s].systems_modified /\ ~stages'[s].systems_modified) =>
               /\ SortedList(InitializeSystems(stages[s]).parallel_systems,
                             stages'[s].parallel_systems)
               /\ SortedList(InitializeSystems(stages[s]).exclusive_systems,
                             stages'[s].exclusive_systems)]_vars

\* a sorted stage of three parallel systems in which the system added last
\* stands first and the system added first depends on the two others
C33_Witness ==
    /\ ~stages[1].systems_modified
    /\ Len(stages[1].parallel_systems) = 3
    /\ stages[1].parallel_systems[1].id = 3
    /\ stages[1].parallel_systems[3].id = 1
    /\ stages[1].parallel_systems[3].dependencies = {1, 2}


(***************************************************************************)
(* Properties of the world's entity operations.                            *)
(***************************************************************************)
\* the value and the ticks an entity index holds of component c, if any
EntityRow(w, index, c) ==
    LET row == SparseGet(w.storage[c].sparse, index)
    IN  IF row = None \/ row >= ColumnLen(w.storage[c].dense) THEN <<>>
        ELSE <<w.storage[c].dense.data[row + 1], w.storage[c].dense.ticks[row + 1]>>
\* every live entity with its generation, its components and their ticks
LiveEntities(w) ==
    {[index |-> i, generation |-> w.entities.meta[i + 1].generation,
      rows |-> [c \in Components |-> EntityRow(w, i, c)]] :
        i \in {j \in 0 .. (Len(w.entities.meta) - 1) : ~w.entities.meta[j + 1].is_empty}}

\* C38: after World::get_or_spawn(e) has returned, the world contains e,
\* whatever the state of e's index was before the call.
C38_GetOrSpawnContains ==
    (ret.op = "get_or_spawn" /\ ~panicked) => Contains(world.entities, ret.ent)

\* C40: World::despawn(e) of an entity the world does not contain returns
\* false and leaves every live entity, its components and their ticks as
\* they were.
C40_DespawnAbsentIsNoOp ==
    [][(ret'.op = "despawn" /\ ~ret'.live /\ ~panicked')
           => (~ret'.ok /\ LiveEntities(world') = LiveEntities(world))]_vars


(***************************************************************************)
(* The storages under a moving change tick: entities are spawned, given   *)
(* and relieved of components while World::increment_change_tick          *)
(* advances the tick the rows are stamped with.                            *)
(***************************************************************************)
MaxStoreTick == 2    \* the world's change tick runs from 1 to this

StoreIncrementChangeTick ==
    /\ ~panicked /\ phase = "world"
    /\ world.change_tick < MaxStoreTick
    /\ world' = [world EXCEPT !.change_tick = IncrementChangeTick(@).change_tick]
    /\ ret' = WRet("increment_change_tick", NoEntity, "A", None, TRUE, FALSE)
    /\ UNCHANGED <<panicked, phase, queues, spawned, steps>>
    /\ EntUnused

StoreNext ==
    \/ WSpawn
    \/ \E e \in WorldHandles, c \in Components, value \in Values : WInsert(e, c, value)
    \/ \E e \in WorldHandles, c \in Components : WRemove(e, c)
    \/ StoreIncrementChangeTick

SpecStore == WInit /\ [][StoreNext]_vars

\* C34: DenseStorage::insert for an entity that has a row replaces the value
\* and sets only the row's changed tick to the given tick, keeping the added
\* tick; for an entity without a row it appends a row whose added and
\* changed tick are both the given tick.
C34_InsertTicks ==
    [][ret'.op = "insert" =>
          LET c == ret'.c
              index == ret'.ent.index
              before == EntityRow(world, index, c)
              after == EntityRow(world', index, c)
              rows == ColumnLen(world.storage[c].dense)
          IN  IF ret'.ok
              THEN /\ before # <<>>
                   /\ after = <<ret'.val, [added |-> before[2].added,
                                           changed |-> world.change_tick]>>
                   /\ ColumnLen(world'.storage[c].dense) = rows
                   /\ SparseGet(world'.storage[c].sparse, index)
                          = SparseGet(world.storage[c].sparse, index)
              ELSE /\ before = <<>>
                   /\ after = <<ret'.val, [added |-> world.change_tick,
                                           changed |-> world.change_tick]>>
                   /\ ColumnLen(world'.storage[c].dense) = rows + 1
                   /\ SparseGet(world'.storage[c].sparse, index) = rows]_vars
\* a row inserted at one tick has been replaced at a later one
C34_Witness ==
    /\ ret.op = "insert" /\ ret.ok
    /\ EntityRow(world, ret.ent.index, ret.c) # <<>>
    /\ EntityRow(world, ret.ent.index, ret.c)[2].added < world.change_tick
    /\ EntityRow(world, ret.ent.index, ret.c)[2].changed = world.change_tick

\* C35: EntityMut::remove::<T>() on entity e leaves the T value, the added
\* tick and the changed tick of every other entity as they were.
C35_RemoveLeavesOthers ==
    [][ret'.op = "remove" =>
          \A index \in 0 .. (MaxEntities - 1) :
              index # ret'.ent.index =>
                  EntityRow(world', index, ret'.c) = EntityRow(world, index, ret'.c)]_vars


\* the indices of the metadata entries that are live, and those that are free
LiveIndices(E) == {i \in 0 .. (Len(E.meta) - 1) : ~E.meta[i + 1].is_empty}
FreeIndices(E) == {i \in 0 .. (Len(E.meta) - 1) : E.meta[i + 1].is_empty}

\* C39: whenever no reservation is unflushed, len is the number of live
\* metadata entries, the entity id set holds exactly their indices, and the
\* free list holds exactly the indices of the empty entries, each once.
C39_TableConsistent ==
    (~panicked /\ ~NeedsFlush(entities) /\ \A t \in Threads : rpc[t] = Idle) =>
        /\ entities.len = Cardinality(LiveIndices(entities))
        /\ \A i \in 0 .. (Len(entities.entity_id_set) - 1) :
               IdSetContains(entities.entity_id_set, i) <=> i \in LiveIndices(entities)
        /\ \A i \in LiveIndices(entities) : IdSetContains(entities.entity_id_set, i)
        /\ {entities.pending[k] : k \in DOMAIN entities.pending} = FreeIndices(entities)
        /\ Len(entities.pending) = Cardinality(FreeIndices(entities))


(***************************************************************************)
(* Readers that keep up.  The run of the event resource is observed with  *)
(* two more notes per reader: whether it has consumed an iter since the   *)
(* last Events::update (since), and whether it has done so between every  *)
(* two consecutive updates so far (regular).                               *)
(***************************************************************************)
OldestEventCount(E) ==
    IF E.events_a.start_event_count < E.events_b.start_event_count
    THEN E.events_a.start_event_count ELSE E.events_b.start_event_count
MissedEvents(reader, E) == SaturatingSub(OldestEventCount(E), reader.last_event_count)

RegInit ==
    /\ entities = EntitiesDefault
    /\ overflow_checks = FALSE
    /\ panicked = FALSE
    /\ rpc = [t \in Threads |-> Idle]
    /\ reserved = <<>>
    /\ ret = NoRet
    /\ track = NoTrack
    /\ world = 0 /\ phase = "events" /\ queues = <<>> /\ spawned = <<>> /\ steps = 0
    /\ stages = <<>> /\ sched = 0 /\ hist = 0
    /\ tworld = 0 /\ tsys = 0 /\ tmon = 0
    /\ accs = 0 /\ fsys = 0
    /\ Rest("")
    /\ events = EventsDefault
    /\ readers = [r \in 1 .. NumReaders |-> [last_event_count |-> 0]]
    /\ seen = [yielded |-> [r \in 1 .. NumReaders |-> <<>>], age |-> <<>>, updates |-> 0,
               since |-> [r \in 1 .. NumReaders |-> FALSE],
               regular |-> [r \in 1 .. NumReaders |-> TRUE]]

RegUpdate ==
    /\ seen.updates < MaxUpdates
    /\ events' = EventsUpdate(events)
    /\ seen' = [seen EXCEPT !.age = [i \in 1 .. Len(@) |-> @[i] + 1],
                            !.updates = @ + 1,
                            !.since = [r \in 1 .. NumReaders |-> FALSE],
                            !.regular = [r \in 1 .. NumReaders |->
                                            @[r] /\ (seen.updates = 0 \/ seen.since[r])]]
    /\ UNCHANGED <<readers, tkvars, acvars, pvars>>

\* reader.iter(&events) consumed to its end
RegIter(r) ==
    LET it == IterWithId(readers[r], events)
    IN  /\ readers' = [readers EXCEPT ![r] = it.reader]
        /\ seen' = [seen EXCEPT !.yielded[r] =
                                    @ \o [i \in 1 .. Len(it.yielded) |-> it.yielded[i].id],
                                !.since[r] = TRUE]
        /\ UNCHANGED <<events, tkvars, acvars, pvars>>

RegNext ==
    \/ \E event \in EventValues : EvSend(event)
    \/ RegUpdate
    \/ \E r \in 1 .. NumReaders : RegIter(r)

SpecReader == RegInit /\ [][RegNext]_vars

\* how often the reader has yielded the event with this id
TimesYielded(r, id) == Cardinality({i \in 1 .. Len(seen.yielded[r]) : seen.yielded[r][i] = id})

\* C36: a reader that consumes an iter at least once between every two
\* consecutive Events::update calls yields every event exactly once: an
\* event that has left the buffers has been yielded by it once, no event
\* twice, and the reader has missed none.
C36_RegularReaderSeesAll ==
    \A r \in 1 .. NumReaders :
        seen.regular[r] =>
            /\ \A i \in 1 .. Len(seen.age) :
                   /\ TimesYielded(r, i - 1) <= 1
                   /\ seen.age[i] >= 2 => TimesYielded(r, i - 1) = 1
            /\ MissedEvents(readers[r], events) = 0
\* reader 1 has kept up over three updates and seen every event, some of
\* which are gone; reader 2 has not and has missed one
C36_Witness ==
    /\ seen.regular[1] /\ ~seen.regular[2]
    /\ seen.updates >= 3
    /\ Len(seen.age) = MaxEvents
    /\ \E i, j \in 1 .. Len(seen.age) : seen.age[i] >= 2 /\ seen.age[j] = 0
    /\ \A i \in 1 .. Len(seen.age) : TimesYielded(1, i - 1) = 1
    /\ \E i \in 1 .. Len(seen.age) : seen.age[i] >= 2 /\ TimesYielded(2, i - 1) = 0


(***************************************************************************)
(* QueryState::get for one entity handle.                                  *)
(***************************************************************************)
\* QueryState::matches: the storages of the with and without components are
\* asked whether they hold the entity
QueryStateMatches(q, w, entity) ==
    /\ \A c \in q.with : DenseContains(w.storage[c], entity)
    /\ \A c \in q.without : ~DenseContains(w.storage[c], entity)

\* QueryState::get_unchecked_manual, called by QueryState::get; the item is
\* fetched for the handle that was passed
QueryStateGet(q, w, entity) ==
    IF ~QueryStateMatches(q, w, entity) THEN Nothing
    ELSE IF FilterFetch(q, w, entity) THEN Some(entity)
    ELSE Nothing

\* C37: QueryState::get returns None for every entity handle the world does
\* not contain, a stale handle whose index a later generation uses included.
C37_GetNoneForAbsent ==
    phase = "world" =>
        \A q \in Queries, e \in WorldHandles :
            ~Contains(world.entities, e) => QueryStateGet(q, world, e) = Nothing

====
